---- MODULE Spec2Model ----
(***************************************************************************)
(* Layered configuration resolution of lattice: the YAML layers found on   *)
(* disk, the deep merge that folds them, the zod schema that validates the *)
(* folded object, and the three entry points of config.ts (loadConfig,     *)
(* parseConfigString, validateConfig).                                     *)
(*                                                                         *)
(* A decoded YAML/JSON value is a record [t, v]: t is the JavaScript kind  *)
(* ("string", "number", "null", "array", "object"), v the payload.  An     *)
(* object's payload is a function from its own keys to values, so a key    *)
(* that is absent is outside DOMAIN v (JavaScript's undefined).            *)
(***************************************************************************)
EXTENDS Integers, Sequences, FiniteSets, TLC

VARIABLES
  mGlobal,      \* merge harness: the three layer objects handed to deepMerge
  mProject,
  mLocal,
  mStep,        \* merge harness: number of deepMerge folds done (0..2)
  mBase,        \* merge harness: the base handed to the last deepMerge call
  mAcc,         \* merge harness: the object folded so far
  fs,           \* file system: path -> file content, or NoFile
  loadOpts,     \* options of the last loadConfig call
  loadResult,   \* outcome of the last loadConfig call
  loadMerged,   \* state.mergedConfig when the last loadConfig call ended
  altResult,    \* outcome of the same call with a layer's .yml file rewritten
  consumed,     \* what the last consumer of loadConfig was handed and left
  text,         \* text handed to parseConfigString / validateConfig
  parseResult,  \* outcome of the last parseConfigString call
  validResult,  \* outcome of the last validateConfig call
  roundTrip,    \* a validated configuration and its validation once serialized again
  agentRouting, \* the routing spec configured for the agent
  routing_state,\* the agent's persisted routing state
  calls,        \* the route calls made since the spec was last edited or the burst reset
  fresh,        \* whether those calls began on a state with its cursors at the start
  routed,       \* number of route calls made in all
  edits,        \* number of edits of the spec and resets of the burst
  lock,         \* holder of the exclusive hold on the state file, or Free
  pc,           \* concurrent invocations: where each one is
  held          \* concurrent invocations: the state each one read

vars == <<mGlobal, mProject, mLocal, mStep, mBase, mAcc,
          fs, loadOpts, loadResult, loadMerged, altResult, consumed,
          text, parseResult, validResult, roundTrip,
          agentRouting, routing_state, calls, fresh, routed, edits, lock, pc, held>>

mergeVars == <<mGlobal, mProject, mLocal, mStep, mBase, mAcc>>
loadVars  == <<fs, loadOpts, loadResult, loadMerged, altResult, consumed>>
textVars  == <<text, parseResult, validResult, roundTrip>>
routeVars == <<agentRouting, routing_state, calls, fresh, routed, edits, lock, pc, held>>

----------------------------------------------------------------------------
(* Decoded values *)

Str(s)  == [t |-> "string", v |-> s]
Num(n)  == [t |-> "number", v |-> n]
Null    == [t |-> "null",   v |-> "null"]
Arr(xs) == [t |-> "array",  v |-> xs]
Obj(f)  == [t |-> "object", v |-> f]

EmptyRec == [k \in {} |-> Null]
EmptyObj == Obj(EmptyRec)

\* All records over subsets of the keys ks whose fields are drawn from vals.
RecordsOver(ks, vals) == UNION { [d -> vals] : d \in SUBSET ks }

\* typeof value === "object" && value !== null && !Array.isArray(value)
isPlainObject(value) == value.t = "object"

\* base[key]: an absent key reads as undefined, which is not a plain object.
HasPlainObject(rec, key) == key \in DOMAIN rec /\ isPlainObject(rec[key])

\* A plausible slip: the base's value is kept when the key is in both.
RECURSIVE deepMergeBaseWins(_, _)
deepMergeBaseWins(base, override) ==
  [key \in DOMAIN base \cup DOMAIN override |->
     IF key \in DOMAIN base
     THEN IF key \in DOMAIN override /\ HasPlainObject(base, key)
             /\ isPlainObject(override[key])
          THEN Obj(deepMergeBaseWins(base[key].v, override[key].v))
          ELSE base[key]
     ELSE override[key]]

\* A plausible slip: two arrays under the same key are concatenated.
RECURSIVE deepMergeConcat(_, _)
deepMergeConcat(base, override) ==
  [key \in DOMAIN base \cup DOMAIN override |->
     IF key \in DOMAIN override
     THEN IF HasPlainObject(base, key) /\ isPlainObject(override[key])
          THEN Obj(deepMergeConcat(base[key].v, override[key].v))
          ELSE IF key \in DOMAIN base /\ base[key].t = "array"
                  /\ override[key].t = "array"
               THEN Arr(base[key].v \o override[key].v)
               ELSE override[key]
     ELSE base[key]]

\* A plausible slip: the merge is one level deep, as { ...base, ...override }.
deepMergeShallow(base, override) ==
  [key \in DOMAIN base \cup DOMAIN override |->
     IF key \in DOMAIN override THEN override[key] ELSE base[key]]

\* A plausible slip: a null in override deletes the key.
RECURSIVE deepMergeNullDeletes(_, _)
deepMergeNullDeletes(base, override) ==
  [key \in (DOMAIN base \cup DOMAIN override)
             \ { k \in DOMAIN override : override[k].t = "null" } |->
     IF key \in DOMAIN override
     THEN IF HasPlainObject(base, key) /\ isPlainObject(override[key])
          THEN Obj(deepMergeNullDeletes(base[key].v, override[key].v))
          ELSE override[key]
     ELSE base[key]]

\* result = {...base}; then every key of override is merged or replaced.
RECURSIVE deepMerge(_, _)
deepMerge(base, override) ==
  [key \in DOMAIN base \cup DOMAIN override |->
     IF key \in DOMAIN override
     THEN IF HasPlainObject(base, key) /\ isPlainObject(override[key])
          THEN Obj(deepMerge(base[key].v, override[key].v))
          ELSE override[key]
     ELSE base[key]]

----------------------------------------------------------------------------
(* zod: the schema combinators used by schema.ts and their safeParse       *)
(*                                                                         *)
(* A schema is a record tagged by kind.  Parse gives zod's ParseReturnType *)
(* [status, data, issues]: status "valid", "dirty" (right type, a check    *)
(* failed) or "aborted"; an issue is [code, path, keys] with zod's issue   *)
(* code, the field path (array indexes written as strings) and, for        *)
(* unrecognized_keys, the offending keys.                                  *)

Bool(b)   == [t |-> "boolean", v |-> b]
Undefined == [t |-> "undefined", v |-> "undefined"]

Issue(code, path)          == [code |-> code, path |-> path, keys |-> {}]
KeysIssue(code, path, ks)  == [code |-> code, path |-> path, keys |-> ks]

\* An absent optional field comes out as null.
ValidNullForAbsent(data) ==
  [status |-> "valid", data |-> IF data = Undefined THEN Null ELSE data,
   issues |-> {}]

Valid(data)           == [status |-> "valid",   data |-> data,      issues |-> {}]
Dirty(data, issues)   == [status |-> "dirty",   data |-> data,      issues |-> issues]
Aborted(issues)       == [status |-> "aborted", data |-> Undefined, issues |-> issues]

IndexKeys == <<"0", "1", "2", "3">>
Entries(xs) == [i \in { IndexKeys[n] : n \in 1..Len(xs) } |->
                  xs[CHOOSE n \in 1..Len(xs) : IndexKeys[n] = i]]

\* The strings of the model that match the PluginRef regular expression.
PluginRefMatching == { "jj-opencode@1.0.0", "oh-my-opencode@2.2.0",
                       "@scope/name@1.0.0", "github:user/repo@v1.0.0",
                       "file:./local-plugin" }
Matches(pattern, s) ==
  CASE pattern = "any"       -> TRUE
    [] pattern = "PluginRef" -> s \in PluginRefMatching

zString          == [kind |-> "string", min |-> 0, pattern |-> "any"]
zStringMin(n)    == [kind |-> "string", min |-> n, pattern |-> "any"]
zStringRegex(p)  == [kind |-> "string", min |-> 0, pattern |-> p]
zNumber          == [kind |-> "number", int |-> FALSE, above |-> "none"]
zNumberPositive  == [kind |-> "number", int |-> FALSE, above |-> "positive"]
zNumberNonneg    == [kind |-> "number", int |-> FALSE, above |-> "nonnegative"]
zIntPositive     == [kind |-> "number", int |-> TRUE,  above |-> "positive"]
zBoolean         == [kind |-> "boolean"]
zUnknown         == [kind |-> "unknown"]
zLiteral(s)      == [kind |-> "literal", value |-> Str(s)]
zEnum(values)    == [kind |-> "enum", values |-> values]
zOptional(inner) == [kind |-> "optional", inner |-> inner]
zArray(elem)     == [kind |-> "array", elem |-> elem, min |-> 0]
zArrayMin(elem, n) == [kind |-> "array", elem |-> elem, min |-> n]
zRecord(value)   == [kind |-> "record", value |-> value]
zObject(shape)   == [kind |-> "object", shape |-> shape, unknownKeys |-> "strip"]
zStrict(schema)  == [schema EXCEPT !.unknownKeys = "strict"]
zUnion(options)  == [kind |-> "union", options |-> options]
zDiscriminatedUnion(tag, options) ==
  [kind |-> "discriminatedUnion", tag |-> tag, options |-> options]

\* ParseStatus.mergeArray / mergeObjectSync
MergeStatus(statuses) ==
  IF "aborted" \in statuses THEN "aborted"
  ELSE IF "dirty" \in statuses THEN "dirty" ELSE "valid"

Finish(status, data, issues) ==
  IF status = "aborted" THEN Aborted(issues)
  ELSE [status |-> status, data |-> data, issues |-> issues]

ParseString(schema, val, path) ==
  IF val.t # "string" THEN Aborted({Issue("invalid_type", path)})
  ELSE LET small == IF Len(val.v) < schema.min
                    THEN {Issue("too_small", path)} ELSE {}
           regex == IF Matches(schema.pattern, val.v)
                    THEN {} ELSE {Issue("invalid_string", path)}
       IN IF small \cup regex = {} THEN Valid(val)
          ELSE Dirty(val, small \cup regex)

ParseNumber(schema, val, path) ==
  IF val.t # "number" THEN Aborted({Issue("invalid_type", path)})
  ELSE LET low == CASE schema.above = "positive" /\ val.v <= 0
                         -> {Issue("too_small", path)}
                    [] schema.above = "nonnegative" /\ val.v < 0
                         -> {Issue("too_small", path)}
                    [] OTHER -> {}
       IN IF low = {} THEN Valid(val) ELSE Dirty(val, low)

ParseEnum(schema, val, path) ==
  IF val.t # "string" THEN Aborted({Issue("invalid_type", path)})
  ELSE IF val.v \in schema.values THEN Valid(val)
  ELSE Aborted({Issue("invalid_enum_value", path)})

\* .strict(): keys outside the shape are one unrecognized_keys issue.
UnknownKeyIssues(schema, extra, path) ==
  IF schema.unknownKeys = "strict" /\ extra # {}
  THEN {KeysIssue("unrecognized_keys", path, extra)} ELSE {}

RECURSIVE Parse(_, _, _)
Parse(schema, val, path) ==
  CASE schema.kind = "optional" ->
         IF val = Undefined THEN Valid(Undefined)
         ELSE Parse(schema.inner, val, path)
    [] schema.kind = "unknown" -> Valid(val)
    [] schema.kind = "string"  -> ParseString(schema, val, path)
    [] schema.kind = "number"  -> ParseNumber(schema, val, path)
    [] schema.kind = "enum"    -> ParseEnum(schema, val, path)
    [] schema.kind = "boolean" ->
         IF val.t = "boolean" THEN Valid(val)
         ELSE Aborted({Issue("invalid_type", path)})
    [] schema.kind = "literal" ->
         IF val = schema.value THEN Valid(val)
         ELSE Aborted({Issue("invalid_literal", path)})
    [] schema.kind = "array" ->
         IF val.t # "array" THEN Aborted({Issue("invalid_type", path)})
         ELSE LET n    == Len(val.v)
                  kids == [i \in 1..n |->
                             Parse(schema.elem, val.v[i], Append(path, IndexKeys[i]))]
                  own  == IF n < schema.min
                          THEN {Issue("too_small", path)} ELSE {}
                  st   == MergeStatus({ kids[i].status : i \in 1..n }
                                      \cup (IF own = {} THEN {} ELSE {"dirty"}))
              IN Finish(st, Arr([i \in 1..n |-> kids[i].data]),
                        own \cup UNION { kids[i].issues : i \in 1..n })
    [] schema.kind = "record" ->
         IF val.t # "object" THEN Aborted({Issue("invalid_type", path)})
         ELSE LET kids == [k \in DOMAIN val.v |->
                             Parse(schema.value, val.v[k], Append(path, k))]
                  st   == MergeStatus({ kids[k].status : k \in DOMAIN val.v })
              IN Finish(st, Obj([k \in DOMAIN val.v |-> kids[k].data]),
                        UNION { kids[k].issues : k \in DOMAIN val.v })
    [] schema.kind = "object" ->
         IF val.t # "object" THEN Aborted({Issue("invalid_type", path)})
         ELSE LET shape == schema.shape
                  kids  == [k \in DOMAIN shape |->
                              Parse(shape[k],
                                    IF k \in DOMAIN val.v THEN val.v[k] ELSE Undefined,
                                    Append(path, k))]
                  extra == DOMAIN val.v \ DOMAIN shape
                  own   == UnknownKeyIssues(schema, extra, path)
                  st    == MergeStatus({ kids[k].status : k \in DOMAIN shape }
                                       \cup (IF own = {} THEN {} ELSE {"dirty"}))
                  kept  == { k \in DOMAIN shape :
                               k \in DOMAIN val.v \/ kids[k].data # Undefined }
              IN Finish(st, Obj([k \in kept |-> kids[k].data]),
                        own \cup UNION { kids[k].issues : k \in DOMAIN shape })
    [] schema.kind = "union" ->
         LET n     == Len(schema.options)
             tries == [i \in 1..n |-> Parse(schema.options[i], val, path)]
             ok    == { i \in 1..n : tries[i].status = "valid" }
             dirty == { i \in 1..n : tries[i].status = "dirty" }
             First(s) == CHOOSE i \in s : \A j \in s : i <= j
         IN IF ok # {} THEN tries[First(ok)]
            ELSE IF dirty # {} THEN tries[First(dirty)]
            ELSE Aborted({Issue("invalid_union", path)})
    [] schema.kind = "discriminatedUnion" ->
         IF val.t # "object" THEN Aborted({Issue("invalid_type", path)})
         ELSE LET tag == IF schema.tag \in DOMAIN val.v
                         THEN val.v[schema.tag] ELSE Undefined
              IN IF tag.t = "string" /\ tag.v \in DOMAIN schema.options
                 THEN Parse(schema.options[tag.v], val, path)
                 ELSE Aborted({Issue("invalid_union_discriminator",
                                     Append(path, schema.tag))})

\* safeParse reporting the first violation only.
safeParseFirstIssue(schema, value) ==
  LET r == Parse(schema, value, <<>>)
  IN IF r.status = "valid"
     THEN [success |-> TRUE,  data |-> r.data,    issues |-> {}]
     ELSE [success |-> FALSE, data |-> Undefined,
           issues  |-> {CHOOSE i \in r.issues : TRUE}]

\* schema.safeParse(value): success iff the status is valid.
safeParse(schema, value) ==
  LET r == Parse(schema, value, <<>>)
  IN IF r.status = "valid"
     THEN [success |-> TRUE,  data |-> r.data,    issues |-> {}]
     ELSE [success |-> FALSE, data |-> Undefined, issues |-> r.issues]

----------------------------------------------------------------------------
(* schema.ts *)

RoutingStrategyFallback ==
  zObject([strategy |-> zLiteral("fallback"),
           models   |-> zArrayMin(zString, 1)])

RoutingStrategyPattern ==
  zObject([strategy        |-> zLiteral("pattern"),
           pattern         |-> zArrayMin(zString, 1),
           on_unavailable  |-> zOptional(zEnum({"next", "retry", "fallback"})),
           fallback_models |-> zOptional(zArray(zString))])

RoutingStrategyWeighted ==
  zObject([strategy |-> zLiteral("weighted"),
           weights  |-> zRecord(zNumberPositive),
           track    |-> zOptional(zBoolean)])

RoutingStrategyRoundRobin ==
  zObject([strategy |-> zLiteral("round_robin"),
           models   |-> zArrayMin(zString, 1)])

RoutingStrategyBurst ==
  zObject([strategy      |-> zLiteral("burst"),
           iterate       |-> zString,
           final         |-> zString,
           burst_size    |-> zIntPositive,
           final_trigger |-> zOptional(zString)])

RoutingConfig ==
  zDiscriminatedUnion("strategy",
    [fallback    |-> RoutingStrategyFallback,
     pattern     |-> RoutingStrategyPattern,
     weighted    |-> RoutingStrategyWeighted,
     round_robin |-> RoutingStrategyRoundRobin,
     burst       |-> RoutingStrategyBurst])

SimpleRouting == zArrayMin(zString, 1)

AgentRouting == zUnion(<<SimpleRouting, RoutingConfig>>)

VcsPreset == zEnum({"jj-workspace", "jj-checkpoint", "git-stash", "none"})

VcsConfigOptions ==
  zObject([workspace_dir      |-> zOptional(zString),
           gate_enforcement   |-> zOptional(zBoolean),
           auto_cleanup       |-> zOptional(zBoolean),
           checkpoint_message |-> zOptional(zString),
           commit_message     |-> zOptional(zString)])

VcsSchema ==
  zObject([preset |-> VcsPreset,
           config |-> zOptional(VcsConfigOptions)])

PluginRef == zStringRegex("PluginRef")

ProviderSchema ==
  zObject([env          |-> zOptional(zString),
           auth         |-> zOptional(zString),
           tier         |-> zOptional(zString),
           local_budget |-> zOptional(zUnion(<<zNumberNonneg, zLiteral("unlimited")>>)),
           models       |-> zOptional(zArray(zString))])

DefaultsSchema ==
  zObject([agents_dir |-> zOptional(zString),
           routing    |-> zOptional(AgentRouting)])

AgentSchema ==
  zObject([path        |-> zString,
           description |-> zOptional(zString),
           triggers    |-> zOptional(zArray(zString)),
           routing     |-> zOptional(AgentRouting)])

McpServerSchema ==
  zObject([enabled     |-> zOptional(zBoolean),
           description |-> zOptional(zString),
           command     |-> zOptional(zString),
           env         |-> zOptional(zRecord(zString))])

CommandSchema ==
  zObject([description |-> zOptional(zString),
           action      |-> zString])

HookActionSchema ==
  zObject([action  |-> zString,
           when    |-> zOptional(zString),
           notify  |-> zOptional(zBoolean),
           message |-> zOptional(zString),
           channel |-> zOptional(zString)])

HOOK_EVENTS ==
  {"pre_agent", "post_agent", "on_rate_limit", "on_budget_exceeded", "on_error"}

\* A plausible slip: .strict() left off the hooks object.
HooksSchemaOpen ==
  zObject([pre_agent          |-> zOptional(zArray(HookActionSchema)),
           post_agent         |-> zOptional(zArray(HookActionSchema)),
           on_rate_limit      |-> zOptional(zArray(HookActionSchema)),
           on_budget_exceeded |-> zOptional(zArray(HookActionSchema)),
           on_error           |-> zOptional(zArray(HookActionSchema))])

HooksSchema ==
  zStrict(zObject([pre_agent          |-> zOptional(zArray(HookActionSchema)),
                   post_agent         |-> zOptional(zArray(HookActionSchema)),
                   on_rate_limit      |-> zOptional(zArray(HookActionSchema)),
                   on_budget_exceeded |-> zOptional(zArray(HookActionSchema)),
                   on_error           |-> zOptional(zArray(HookActionSchema))]))

ConfigShape ==
  [name          |-> zStringMin(1),
   description   |-> zOptional(zString),
   version       |-> zOptional(zString),
   author        |-> zOptional(zString),
   vcs           |-> zOptional(VcsSchema),
   plugins       |-> zOptional(zArray(PluginRef)),
   providers     |-> zOptional(zRecord(ProviderSchema)),
   defaults      |-> zOptional(DefaultsSchema),
   agents        |-> zOptional(zRecord(AgentSchema)),
   plugin_config |-> zOptional(zRecord(zRecord(zUnknown))),
   mcp           |-> zOptional(zRecord(McpServerSchema)),
   commands      |-> zOptional(zRecord(CommandSchema)),
   hooks         |-> zOptional(HooksSchema)]

\* A plausible slip: .strict() left off the root object.
LatticeConfigSchemaOpen == zObject(ConfigShape)

\* A plausible slip: name declared optional like its neighbours.
LatticeConfigSchemaNameOptional ==
  zStrict(zObject([ConfigShape EXCEPT !.name = zOptional(zStringMin(1))]))

LatticeConfigSchema == zStrict(zObject(ConfigShape))

----------------------------------------------------------------------------
(* config.ts: errors, files and YAML *)

\* An optional value (string | null, path?: string): <<>> or <<x>>.
None    == <<>>
Some(x) == <<x>>

\* How a call ends: it returns a value or throws an error.
Returned(value) == [threw |-> FALSE, value |-> value,     error |-> Undefined]
Threw(error)    == [threw |-> TRUE,  value |-> Undefined, error |-> error]

\* A message built by a template literal: its literal and interpolated parts
\* in order, and the issues it serializes when it embeds a ZodError's message
\* (the JSON text of the issue list).
Message(parts)     == [parts |-> parts, issues |-> {}]
ZodMessage(parts, issues) == [parts |-> parts, issues |-> issues]

\* new ConfigError(message, path?, zodErrors?)
ConfigError(message, path, zodErrors) ==
  [name |-> "ConfigError", message |-> message, path |-> path,
   zodErrors |-> zodErrors]

\* A text is YAML that decodes to doc, or is not well-formed YAML at all.
Yaml(doc)  == [syntax |-> "ok",        doc |-> doc]
Malformed  == [syntax |-> "malformed", doc |-> Undefined]
NoFile     == [syntax |-> "absent",    doc |-> Undefined]

\* stringify(value) of the yaml package: the text of the value, in which a key
\* whose value is undefined is left out and an undefined list item is null.
RECURSIVE Plain(_)
Plain(value) ==
  CASE value.t = "object" ->
         Obj([k \in { j \in DOMAIN value.v : value.v[j] # Undefined } |->
                Plain(value.v[k])])
    [] value.t = "array" ->
         Arr([i \in DOMAIN value.v |->
                IF value.v[i] = Undefined THEN Null ELSE Plain(value.v[i])])
    [] OTHER -> value

stringifyYaml(value) == Yaml(Plain(value))

YamlErrorMessage == "YAMLParseError"

\* parse(content) of the yaml package: the decoded document, or a throw.
parseYaml(content) ==
  IF content.syntax = "ok" THEN Returned(content.doc)
  ELSE Threw(YamlErrorMessage)

CONFIG_FILENAMES         == <<"lattice.yaml", "lattice.yml">>
LOCAL_OVERRIDE_FILENAMES == <<"lattice.local.yaml", "lattice.local.yml">>

ProjectDir == "project"
GlobalDir  == "global"

join(dir, filename) == dir \o "/" \o filename

Paths == { join(GlobalDir, CONFIG_FILENAMES[i]) : i \in 1..2 }
         \cup { join(ProjectDir, CONFIG_FILENAMES[i]) : i \in 1..2 }
         \cup { join(ProjectDir, LOCAL_OVERRIDE_FILENAMES[i]) : i \in 1..2 }

existsSync(files, filepath) == files[filepath] # NoFile

\* A plausible slip: the legacy .yml name is tried before the .yaml name.
findConfigFileLast(files, dir, filenames) ==
  LET found == { i \in 1..Len(filenames) : existsSync(files, join(dir, filenames[i])) }
  IN IF found = {} THEN None
     ELSE Some(join(dir, filenames[CHOOSE i \in found : \A j \in found : j <= i]))

\* The first of the filenames that exists in dir, or null.
findConfigFile(files, dir, filenames) ==
  LET found == { i \in 1..Len(filenames) : existsSync(files, join(dir, filenames[i])) }
  IN IF found = {} THEN None
     ELSE Some(join(dir, filenames[CHOOSE i \in found : \A j \in found : i <= j]))

\* A plausible slip: the parser's failure is swallowed and the file ignored.
parseYamlFileLenient(files, filepath) ==
  LET r == parseYaml(files[filepath])
  IN IF r.threw THEN Returned(Null) ELSE r

parseYamlFile(files, filepath) ==
  LET r == parseYaml(files[filepath])
  IN IF r.threw
     THEN Threw(ConfigError(Message(<<"Failed to parse ", filepath, ": ", r.error>>),
                            Some(filepath), None))
     ELSE r

\* rec with rec[key] = val
With(rec, key, val) ==
  [k \in DOMAIN rec \cup {key} |-> IF k = key THEN val ELSE rec[k]]

----------------------------------------------------------------------------
(* config.ts: loadConfig, with its helpers extracted *)

\* interface ConfigLoadState { mergedConfig; sources }
ConfigLoadState(mergedConfig, sources) ==
  [mergedConfig |-> mergedConfig, sources |-> sources]

loadGlobalConfig(files, globalDir, state) ==
  LET globalPath == findConfigFile(files, globalDir, CONFIG_FILENAMES)
  IN IF globalPath = None THEN Returned(state)
     ELSE LET globalConfig == parseYamlFile(files, globalPath[1])
          IN IF globalConfig.threw THEN globalConfig
             ELSE IF isPlainObject(globalConfig.value)
             THEN Returned(ConfigLoadState(globalConfig.value,
                             With(state.sources, "global", globalPath[1])))
             ELSE Returned(state)

loadProjectConfig(files, projectDir, state) ==
  LET projectPath == findConfigFile(files, projectDir, CONFIG_FILENAMES)
  IN IF projectPath = None THEN Returned(state)
     ELSE LET projectConfig == parseYamlFile(files, projectPath[1])
          IN IF projectConfig.threw THEN projectConfig
             ELSE IF isPlainObject(projectConfig.value)
             THEN Returned(ConfigLoadState(
                             Obj(deepMerge(state.mergedConfig.v, projectConfig.value.v)),
                             With(state.sources, "project", projectPath[1])))
             ELSE Returned(state)

\* A plausible slip: the arguments of deepMerge are swapped, so the layers
\* folded so far override the local file.
loadLocalOverridesSwapped(files, projectDir, state) ==
  LET localPath == findConfigFile(files, projectDir, LOCAL_OVERRIDE_FILENAMES)
  IN IF localPath = None THEN Returned(state)
     ELSE LET localConfig == parseYamlFile(files, localPath[1])
          IN IF localConfig.threw THEN localConfig
             ELSE IF isPlainObject(localConfig.value)
             THEN Returned(ConfigLoadState(
                             Obj(deepMerge(localConfig.value.v, state.mergedConfig.v)),
                             With(state.sources, "local", localPath[1])))
             ELSE Returned(state)

loadLocalOverrides(files, projectDir, state) ==
  LET localPath == findConfigFile(files, projectDir, LOCAL_OVERRIDE_FILENAMES)
  IN IF localPath = None THEN Returned(state)
     ELSE LET localConfig == parseYamlFile(files, localPath[1])
          IN IF localConfig.threw THEN localConfig
             ELSE IF isPlainObject(localConfig.value)
             THEN Returned(ConfigLoadState(
                             Obj(deepMerge(state.mergedConfig.v, localConfig.value.v)),
                             With(state.sources, "local", localPath[1])))
             ELSE Returned(state)

\* sources.local ?? sources.project ?? sources.global
errorPath(sources) ==
  IF "local" \in DOMAIN sources THEN Some(sources["local"])
  ELSE IF "project" \in DOMAIN sources THEN Some(sources["project"])
  ELSE IF "global" \in DOMAIN sources THEN Some(sources["global"])
  ELSE None

NotFoundMessage(projectDir, globalDir) ==
  Message(<<"No lattice config found. Searched:", projectDir, globalDir>>)

\* `Invalid lattice config: ${result.error.message}`
InvalidMessage(issues) == ZodMessage(<<"Invalid lattice config: ">>, issues)

validateMergedConfig(state, projectDir, globalDir) ==
  IF DOMAIN state.mergedConfig.v = {} /\ DOMAIN state.sources = {}
  THEN Threw(ConfigError(NotFoundMessage(projectDir, globalDir),
                         Some(projectDir), None))
  ELSE LET result == safeParse(LatticeConfigSchema, state.mergedConfig)
       IN IF ~result.success
          THEN Threw(ConfigError(InvalidMessage(result.issues),
                                 errorPath(state.sources), Some(result.issues)))
          ELSE Returned(result.data)

\* The part of loadConfig before validation: the layers consulted and folded.
foldLayers(files, options, projectDir, globalDir) ==
  LET state0 == Returned(ConfigLoadState(EmptyObj, EmptyRec))
      state1 == IF ~options.skipGlobal
                THEN loadGlobalConfig(files, globalDir, state0.value)
                ELSE state0
      state2 == IF state1.threw THEN state1
                ELSE loadProjectConfig(files, projectDir, state1.value)
      state3 == IF state2.threw \/ options.skipLocal THEN state2
                ELSE loadLocalOverrides(files, projectDir, state2.value)
  IN state3

loadConfig(files, options) ==
  LET projectDir == ProjectDir
      globalDir  == GlobalDir
      state      == foldLayers(files, options, projectDir, globalDir)
  IN IF state.threw THEN state
     ELSE LET config == validateMergedConfig(state.value, projectDir, globalDir)
          IN IF config.threw THEN config
             ELSE Returned([config |-> config.value,
                            sources |-> state.value.sources])

----------------------------------------------------------------------------
(* config.ts: loadConfig with the layer loading written inline.  A layer   *)
(* is merged when it is truthy and typeof "object", which an array is too. *)

\* value && typeof value === "object"
isObjectLike(value) == value.t \in {"object", "array"}

\* The own enumerable properties of an object or of an array (its indexes).
OwnProps(value) == IF value.t = "array" THEN Entries(value.v) ELSE value.v

foldLayersInline(files, options, projectDir, globalDir) ==
  LET state0 == Returned(ConfigLoadState(EmptyObj, EmptyRec))
      globalPath == findConfigFile(files, globalDir, CONFIG_FILENAMES)
      state1 ==
        IF options.skipGlobal \/ globalPath = None THEN state0
        ELSE LET globalConfig == parseYamlFile(files, globalPath[1])
             IN IF globalConfig.threw THEN globalConfig
                ELSE IF isObjectLike(globalConfig.value)
                THEN Returned(ConfigLoadState(globalConfig.value,
                                With(state0.value.sources, "global", globalPath[1])))
                ELSE state0
      projectPath == findConfigFile(files, projectDir, CONFIG_FILENAMES)
      state2 ==
        IF state1.threw \/ projectPath = None THEN state1
        ELSE LET projectConfig == parseYamlFile(files, projectPath[1])
             IN IF projectConfig.threw THEN projectConfig
                ELSE IF isObjectLike(projectConfig.value)
                THEN Returned(ConfigLoadState(
                                Obj(deepMerge(OwnProps(state1.value.mergedConfig),
                                              OwnProps(projectConfig.value))),
                                With(state1.value.sources, "project", projectPath[1])))
                ELSE state1
      localPath == findConfigFile(files, projectDir, LOCAL_OVERRIDE_FILENAMES)
      state3 ==
        IF state2.threw \/ options.skipLocal \/ localPath = None THEN state2
        ELSE LET localConfig == parseYamlFile(files, localPath[1])
             IN IF localConfig.threw THEN localConfig
                ELSE IF isObjectLike(localConfig.value)
                THEN Returned(ConfigLoadState(
                                Obj(deepMerge(OwnProps(state2.value.mergedConfig),
                                              OwnProps(localConfig.value))),
                                With(state2.value.sources, "local", localPath[1])))
                ELSE state2
  IN state3

loadConfigInline(files, options) ==
  LET projectDir == ProjectDir
      globalDir  == GlobalDir
      state      == foldLayersInline(files, options, projectDir, globalDir)
  IN IF state.threw THEN state
     ELSE LET mergedConfig == state.value.mergedConfig
              sources      == state.value.sources
          IN IF DOMAIN OwnProps(mergedConfig) = {} /\ DOMAIN sources = {}
             THEN Threw(ConfigError(NotFoundMessage(projectDir, globalDir),
                                    Some(projectDir), None))
             ELSE LET result == safeParse(LatticeConfigSchema, mergedConfig)
                  IN IF ~result.success
                     THEN Threw(ConfigError(InvalidMessage(result.issues),
                                            errorPath(sources), Some(result.issues)))
                     ELSE Returned([config |-> result.data, sources |-> sources])

----------------------------------------------------------------------------
(* config.ts: the text entry points *)

\* A plausible slip: text that is not YAML is taken for an empty document.
parseYamlSafeEmpty(yamlContent, filepath) ==
  LET r == parseYaml(yamlContent)
  IN IF r.threw THEN Returned(Null) ELSE r

parseYamlSafe(yamlContent, filepath) ==
  LET r == parseYaml(yamlContent)
  IN IF r.threw
     THEN Threw(ConfigError(Message(<<"Invalid YAML syntax: ", r.error>>),
                            filepath, None))
     ELSE r

validateParsedConfig(parsed, filepath) ==
  LET result == safeParse(LatticeConfigSchema, parsed)
  IN IF ~result.success
     THEN Threw(ConfigError(InvalidMessage(result.issues),
                            filepath, Some(result.issues)))
     ELSE Returned(result.data)

parseConfigString(yamlContent, filepath) ==
  LET parsed == parseYamlSafe(yamlContent, filepath)
  IN IF parsed.threw THEN parsed
     ELSE validateParsedConfig(parsed.value, filepath)

\* type ValidationResult
ValidationSuccess(config) ==
  [success |-> TRUE, config |-> config, error |-> None, zodErrors |-> None]
ValidationFailure(error, zodErrors) ==
  [success |-> FALSE, config |-> Undefined, error |-> Some(error),
   zodErrors |-> zodErrors]

\* A plausible slip: parseYaml is called outside the try block.
validateConfigNoCatch(yamlContent) ==
  LET parsed == parseYaml(yamlContent)
  IN IF parsed.threw THEN parsed
     ELSE LET result == safeParse(LatticeConfigSchema, parsed.value)
          IN IF ~result.success
             THEN Returned(ValidationFailure(ZodMessage(<<>>, result.issues),
                                                Some(result.issues)))
             ELSE Returned(ValidationSuccess(result.data))

validateConfig(yamlContent) ==
  LET parsed == parseYaml(yamlContent)
  IN IF parsed.threw
     THEN Returned(ValidationFailure(
            Message(<<"Invalid YAML syntax: ", parsed.error>>), None))
     ELSE LET result == safeParse(LatticeConfigSchema, parsed.value)
          IN IF ~result.success
             THEN Returned(ValidationFailure(ZodMessage(<<>>, result.issues),
                                                Some(result.issues)))
             ELSE Returned(ValidationSuccess(result.data))

----------------------------------------------------------------------------
(* Model routing: agents/quick.md, "Model Routing", and section 4.4 *)

\* The outcome of a call that hands back no model.
NoModel == "none"

Models == {"sonnet", "haiku", "llama"}

\* One entry of routing_state in state.json.
RoutingState(strategy, pattern_index, call_count, burst_count, last_model, distribution) ==
  [strategy      |-> strategy,
   pattern_index |-> pattern_index,
   call_count    |-> call_count,
   burst_count   |-> burst_count,
   last_model    |-> last_model,
   distribution  |-> distribution]

\* No entry yet for the agent: the entry is created on its first route call.
NoState == RoutingState("none", 0, 0, 0, NoModel, EmptyRec)

FreshState(strategy) == RoutingState(strategy, 0, 0, 0, NoModel, EmptyRec)

\* The lists and bounds the routing schemas require of a spec.
WellFormed(routing) ==
  CASE routing.strategy \in {"fallback", "round_robin"} -> Len(routing.models) >= 1
    [] routing.strategy = "pattern"  -> Len(routing.pattern) >= 1
    [] routing.strategy = "weighted" ->
         \A m \in DOMAIN routing.weights : routing.weights[m] > 0
    [] routing.strategy = "burst"    -> routing.burst_size > 0
    [] OTHER -> FALSE

Range(list) == { list[i] : i \in 1..Len(list) }

\* Every model a routing spec names.
Configured(routing) ==
  CASE routing.strategy \in {"fallback", "round_robin"} -> Range(routing.models)
    [] routing.strategy = "pattern" ->
         Range(routing.pattern) \cup Range(routing.fallback_models)
    [] routing.strategy = "weighted" -> DOMAIN routing.weights
    [] routing.strategy = "burst"    -> {routing.iterate, routing.final}

\* The stale state is retagged and its cursors kept.
ReinitialiseRetagOnly(routing, state) ==
  [state EXCEPT !.strategy = routing.strategy]

\* A state recorded under another strategy (or no state at all) is discarded
\* and a fresh one takes its place.
Reinitialise(routing, state) ==
  IF state.strategy # routing.strategy THEN FreshState(routing.strategy)
  ELSE state

\* list[index], counting from 0; nothing beyond the end of the list.
At(list, index) == IF index < Len(list) THEN list[index + 1] ELSE NoModel

get_pattern_index(state) == state.pattern_index

\* The cursor runs on past the end of the pattern.
increment_pattern_indexUnwrapped(routing, state) ==
  [state EXCEPT !.pattern_index = @ + 1]

\* The cursor is left where it is.
increment_pattern_indexNever(routing, state) == state

increment_pattern_index(routing, state) ==
  [state EXCEPT !.pattern_index = (@ + 1) % Len(routing.pattern)]

get_call_count(state) == state.call_count

\* The draws weighted_random can make: any model of positive weight.
weighted_random(weights) == { m \in DOMAIN weights : weights[m] > 0 }

\* The first model of the list that is available, if any.
first_available(models, avail) ==
  LET ok == { i \in 1..Len(models) : models[i] \in avail }
  IN IF ok = {} THEN NoModel
     ELSE models[CHOOSE i \in ok : \A j \in ok : i <= j]

available(model, avail) == model \in avail

Selection(model, slot, state) == [model |-> model, slot |-> slot, state |-> state]

SelectBurst(routing, state) ==
  IF state.burst_count < routing.burst_size THEN routing.iterate
  ELSE routing.final

\* The strategy branches of route: the scheduled model, the slot it was
\* taken from, and the state with the cursor moved on.
Select(routing, state, avail) ==
  CASE routing.strategy = "pattern" ->
         LET index == get_pattern_index(state)
         IN { Selection(At(routing.pattern, index), index,
                        increment_pattern_index(routing, state)) }
    [] routing.strategy = "weighted" ->
         IF weighted_random(routing.weights) = {}
         THEN { Selection(NoModel, 0, state) }
         ELSE { Selection(m, 0, state) : m \in weighted_random(routing.weights) }
    [] routing.strategy = "round_robin" ->
         LET index == get_call_count(state) % Len(routing.models)
         IN { Selection(routing.models[index + 1], index, state) }
    [] routing.strategy = "burst" ->
         { Selection(SelectBurst(routing, state), 0, state) }
    [] routing.strategy = "fallback" ->
         { Selection(first_available(routing.models, avail), 0, state) }

\* The burst counter is never moved.
burst_countedNever(routing, count) == count

\* The burst counter after a call: one more while the burst iterates, the
\* same once final is reached.
burst_counted(routing, count) ==
  IF routing.strategy = "burst" /\ count < routing.burst_size THEN count + 1
  ELSE count

Bump(distribution, model) ==
  With(distribution, model,
       IF model \in DOMAIN distribution THEN distribution[model] + 1 ELSE 1)

\* The model handed back is remembered and the call is not counted.
record_callUncounted(routing, state, model) ==
  [state EXCEPT
     !.last_model   = IF model = NoModel THEN @ ELSE model,
     !.burst_count  = burst_counted(routing, @)]

\* Calls that hand back no model are not counted.
record_callSelectedOnly(routing, state, model) ==
  IF model = NoModel THEN state
  ELSE [state EXCEPT
          !.call_count   = @ + 1,
          !.last_model   = model,
          !.burst_count  = burst_counted(routing, @),
          !.distribution = IF routing.strategy = "weighted" /\ routing.track
                           THEN Bump(@, model) ELSE @]

\* state.record_call: the call is counted, the model handed back remembered,
\* the burst counted while it iterates, the draw tallied when tracked.
record_call(routing, state, model) ==
  [state EXCEPT
     !.call_count   = @ + 1,
     !.last_model   = IF model = NoModel THEN @ ELSE model,
     !.burst_count  = burst_counted(routing, @),
     !.distribution = IF routing.strategy = "weighted" /\ routing.track
                         /\ model # NoModel
                      THEN Bump(@, model) ELSE @]

Handled(model, state) == [model |-> model, state |-> state]

\* The scheduled model is handed back although it is unavailable.
handle_unavailableKeepScheduled(routing, selection, avail) ==
  { Handled(selection.model,
            record_call(routing, selection.state, selection.model)) }

\* handle_unavailable: what the call hands back instead of the scheduled
\* model, and the state it leaves.  Under pattern routing on_unavailable
\* decides: next moves on to the following slot, retry stays on the slot for
\* the next call, fallback serves the call from fallback_models.  The other
\* strategies name no policy: the call hands back nothing or any configured
\* model that is available.
handle_unavailable(routing, selection, avail) ==
  LET state == selection.state
      handled ==
        IF routing.strategy = "pattern"
        THEN CASE routing.on_unavailable = "next" -> { Handled(NoModel, state) }
               [] routing.on_unavailable = "retry" ->
                    { Handled(NoModel,
                              [state EXCEPT !.pattern_index = selection.slot]) }
               [] routing.on_unavailable = "fallback" ->
                    { Handled(first_available(routing.fallback_models, avail),
                              state) }
        ELSE { Handled(NoModel, state) }
             \cup { Handled(m, state) : m \in Configured(routing) \cap avail }
  IN { Handled(h.model, record_call(routing, h.state, h.model)) : h \in handled }

Routed(routing, outcome, model, state, selection, before, avail) ==
  [outcome   |-> outcome,
   model     |-> model,
   state     |-> state,
   scheduled |-> selection.model,
   slot      |-> selection.slot,
   available |-> available(selection.model, avail),
   stranded  |-> Configured(routing) \cap avail = {},
   before    |-> before]

\* route(agent): every result the call can have on the persisted state it
\* read, with avail the models the availability check reports available.
route(routing, persisted, avail) ==
  IF ~WellFormed(routing)
  THEN { Routed(routing, "invalid_spec", NoModel, persisted,
                Selection(NoModel, 0, persisted), persisted, avail) }
  ELSE LET state == Reinitialise(routing, persisted)
       IN UNION {
            IF available(selection.model, avail)
            THEN { Routed(routing, "selected", selection.model,
                          record_call(routing, selection.state, selection.model),
                          selection, persisted, avail) }
            ELSE { Routed(routing,
                          IF h.model = NoModel THEN "no_model_available"
                          ELSE "selected",
                          h.model, h.state, selection, persisted, avail) :
                     h \in handle_unavailable(routing, selection, avail) } :
            selection \in Select(routing, state, avail) }

\* The exclusive hold on the state file.
Free == 0

\* The hold is given without looking at who has it.
CanAcquireAlways(holder) == TRUE

CanAcquire(holder) == holder = Free

----------------------------------------------------------------------------
(* Routing specs and invocations *)

Pattern(pattern, on_unavailable, fallback_models) ==
  [strategy        |-> "pattern",
   pattern         |-> pattern,
   on_unavailable  |-> on_unavailable,
   fallback_models |-> fallback_models]

FallbackSpec   == [strategy |-> "fallback", models |-> <<"sonnet", "haiku">>]
RoundRobinSpec == [strategy |-> "round_robin",
                   models   |-> <<"sonnet", "haiku", "llama">>]
BurstSpec      == [strategy   |-> "burst",
                   iterate    |-> "llama",
                   final      |-> "sonnet",
                   burst_size |-> 2]
WeightedSpec   == [strategy |-> "weighted",
                   weights  |-> [sonnet |-> 75, haiku |-> 25],
                   track    |-> TRUE]
MalformedSpec  == Pattern(<<>>, "next", <<>>)

\* The routing specs an agent is configured with, over all five strategies
\* and the three on_unavailable policies, and one the schema refuses.
RoutingSpecs ==
  { FallbackSpec,
    Pattern(<<"sonnet", "sonnet", "haiku">>, "next", <<>>),
    Pattern(<<"sonnet", "haiku">>, "retry", <<>>),
    Pattern(<<"sonnet", "haiku">>, "fallback", <<"llama">>),
    Pattern(<<"haiku">>, "next", <<>>),
    WeightedSpec,
    RoundRobinSpec,
    [strategy |-> "round_robin", models |-> <<"sonnet", "haiku">>],
    BurstSpec,
    MalformedSpec }

\* Route calls made in one behaviour.
MaxCalls == 4

\* Edits of the spec and resets of the burst in one behaviour.
MaxEdits == 1

\* Concurrent invocations of route on the agent's state.
MaxProcs == 3

Procs == 1..MaxProcs

IdleRoute ==
  /\ agentRouting = FallbackSpec
  /\ routing_state = NoState
  /\ calls = <<>>
  /\ fresh = TRUE
  /\ routed = 0
  /\ edits = 0
  /\ lock = Free
  /\ pc = [p \in Procs |-> "idle"]
  /\ held = [p \in Procs |-> NoState]
----------------------------------------------------------------------------
(* commands/snapshot.ts: generateFrozenConfig, on a heap of objects *)

\* An object lives at an address of the heap and is held by reference: the
\* heap gives each address the object's own properties, in which a nested
\* object is a reference to its address.  Arrays and scalars are values.
Ref(addr)  == [t |-> "ref", v |-> addr]
IsRef(val) == val.t = "ref"

\* value || {}, if (value): null, undefined, false, "" and 0 are falsy.
Truthy(val) == val \notin {Undefined, Null, Bool(FALSE), Str(""), Num(0)}

RECURSIVE Descend(_, _)
Descend(value, keys) ==
  IF keys = <<>> THEN value ELSE Descend(value.v[Head(keys)], Tail(keys))

RECURSIVE ObjectPaths(_)
ObjectPaths(value) ==
  {<<>>} \cup UNION { { <<k>> \o p : p \in ObjectPaths(value.v[k]) } :
                      k \in { j \in DOMAIN value.v : value.v[j].t = "object" } }

\* The heap holding the object tree value, its root at address root.
HeapOf(value, root) ==
  [a \in { root \o p : p \in ObjectPaths(value) } |->
     LET obj == Descend(value, SubSeq(a, Len(root) + 1, Len(a)))
     IN [k \in DOMAIN obj.v |->
           IF obj.v[k].t = "object" THEN Ref(Append(a, k)) ELSE obj.v[k]]]

\* The value read through a reference, nested objects included.
RECURSIVE Deref(_, _)
Deref(heap, val) ==
  IF IsRef(val)
  THEN Obj([k \in DOMAIN heap[val.v] |-> Deref(heap, heap[val.v][k])])
  ELSE val

\* object[key]
Get(heap, addr, key) ==
  IF key \in DOMAIN heap[addr] THEN heap[addr][key] ELSE Undefined

\* object[key] = val
Set(heap, addr, key, val) == [heap EXCEPT ![addr] = With(@, key, val)]

\* A new object with the given properties.
New(heap, addr, fields) ==
  [a \in DOMAIN heap \cup {addr} |-> IF a = addr THEN fields ELSE heap[a]]

BaseConfigAddr  == <<"baseConfig">>
FrozenAddr      == <<"frozen">>
ExistingMcpAddr == <<"existingMcp">>
PluginConfigAddr == <<"pluginConfig">>
OmoConfigAddr   == <<"omoConfig">>
McpServerAddr(name) == <<"mcpServers", name>>

\* { name, description, version } of a snapshot taken without a lattice config
FrozenDefaults ==
  [name        |-> Str("frozen-workflow"),
   description |-> Str("Frozen configuration snapshot"),
   version     |-> Str("1.0.0")]

\* { enabled: true, ...config }
EnabledServer(config) ==
  [k \in {"enabled"} \cup DOMAIN config.v |->
     IF k \in DOMAIN config.v THEN config.v[k] ELSE Bool(TRUE)]

\* Merge MCP overrides: a server of overrides.mcpServers that frozen.mcp does
\* not have is added to it.
MergeMcpOverrides(heap, overrides) ==
  IF "mcpServers" \notin DOMAIN overrides THEN heap
  ELSE LET existing    == Get(heap, FrozenAddr, "mcp")
           existingMcp == IF Truthy(existing) THEN existing.v ELSE ExistingMcpAddr
           h1          == IF Truthy(existing) THEN heap
                          ELSE New(heap, ExistingMcpAddr, EmptyRec)
           servers     == overrides.mcpServers.v
           added       == { n \in DOMAIN servers :
                              ~Truthy(Get(h1, existingMcp, n)) }
           h2 == [a \in DOMAIN h1 \cup { McpServerAddr(n) : n \in added } |->
                    IF a = existingMcp
                    THEN [k \in DOMAIN h1[a] \cup added |->
                            IF k \in added THEN Ref(McpServerAddr(k)) ELSE h1[a][k]]
                    ELSE IF a \in DOMAIN h1 THEN h1[a]
                    ELSE EnabledServer(servers[a[2]])]
       IN Set(h2, FrozenAddr, "mcp", Ref(existingMcp))

\* Apply disabled MCPs: mcpConfig[name].enabled = false
ApplyDisabledMcps(heap, overrides) ==
  IF "disabled_mcps" \notin DOMAIN overrides
     \/ ~Truthy(Get(heap, FrozenAddr, "mcp")) THEN heap
  ELSE LET mcpConfig == Get(heap, FrozenAddr, "mcp").v
           disabled  == { n \in Range(overrides.disabled_mcps.v) :
                            Truthy(Get(heap, mcpConfig, n.v)) }
           targets   == { Get(heap, mcpConfig, n.v).v : n \in disabled }
       IN [a \in DOMAIN heap |->
             IF a \in targets THEN With(heap[a], "enabled", Bool(FALSE))
             ELSE heap[a]]

\* disabled_agents and disabled_hooks are written to
\* plugin_config["oh-my-opencode"].
ApplyDisabledAgentsAndHooks(heap, overrides) ==
  IF DOMAIN overrides \cap {"disabled_agents", "disabled_hooks"} = {} THEN heap
  ELSE LET plugin       == Get(heap, FrozenAddr, "plugin_config")
           pluginConfig == IF Truthy(plugin) THEN plugin.v ELSE PluginConfigAddr
           h1  == IF Truthy(plugin) THEN heap
                  ELSE New(heap, PluginConfigAddr, EmptyRec)
           omo == Get(h1, pluginConfig, "oh-my-opencode")
           omoConfig == IF Truthy(omo) THEN omo.v ELSE OmoConfigAddr
           h2  == IF Truthy(omo) THEN h1 ELSE New(h1, OmoConfigAddr, EmptyRec)
           h3  == IF "disabled_agents" \in DOMAIN overrides
                  THEN Set(h2, omoConfig, "disabled_agents",
                           overrides.disabled_agents)
                  ELSE h2
           h4  == IF "disabled_hooks" \in DOMAIN overrides
                  THEN Set(h3, omoConfig, "disabled_hooks",
                           overrides.disabled_hooks)
                  ELSE h3
           h5  == Set(h4, pluginConfig, "oh-my-opencode", Ref(omoConfig))
       IN Set(h5, FrozenAddr, "plugin_config", Ref(pluginConfig))

FrozenStamp ==
  Obj([timestamp |-> Str("toISOString"), source |-> Str("lattice snapshot")])

\* What a consumer of loadConfig leaves: the configuration it was handed (null
\* if loadConfig raised), the value of that same object when the consumer has
\* ended, and the text the consumer produced, if any.
Consumed(by, baseConfig, after, produced) ==
  [by |-> by, baseConfig |-> baseConfig, after |-> after, produced |-> produced]

\* const x = value: the one element of { body : x \in {value} } is body with
\* the value computed once.
The(set) == CHOOSE element \in set : TRUE

\* generateFrozenConfig(projectDir), with overrides what readRuntimeOverrides
\* returns and embedded what embedLocalContent returns.
generateFrozenConfig(files, overrides, embedded) ==
  The({
  LET baseConfig == IF result.threw THEN Null ELSE result.value.config
  IN IF baseConfig = Null /\ DOMAIN overrides = {}
     THEN Consumed("generateFrozenConfig", Null, Null, None)
     ELSE
  The({ The({ The({ The({ The({ The({ The({
    Consumed("generateFrozenConfig", baseConfig,
             IF baseConfig # Null THEN Deref(h6, Ref(BaseConfigAddr)) ELSE Null,
             Some(stringifyYaml(Deref(h6, Ref(FrozenAddr)))))
  : h6 \in {Set(h5, FrozenAddr, "_frozen", FrozenStamp)} })
  : h5 \in {IF DOMAIN embedded.v # {}
            THEN Set(h4, FrozenAddr, "embedded", embedded) ELSE h4} })
  : h4 \in {ApplyDisabledAgentsAndHooks(h3, overrides)} })
  : h3 \in {ApplyDisabledMcps(h2, overrides)} })
  : h2 \in {MergeMcpOverrides(h1, overrides)} })
  \* frozen = { ...baseConfig }: the properties are copied, the objects they
  \* refer to are not
  : h1 \in {New(h0, FrozenAddr,
                IF baseConfig # Null THEN h0[BaseConfigAddr] ELSE FrozenDefaults)} })
  : h0 \in {IF baseConfig # Null THEN HeapOf(baseConfig, BaseConfigAddr)
            ELSE EmptyRec} })
  : result \in {loadConfig(files, [skipGlobal |-> FALSE, skipLocal |-> FALSE])} })

\* displayConfigDetails(projectDir, globalConfigDir): the configuration is
\* read by the display functions and handed on to no one.
displayConfigDetails(files) ==
  The({
    IF result.threw THEN Consumed("displayConfigDetails", Null, Null, None)
    ELSE The({ Consumed("displayConfigDetails", result.value.config,
                        Deref(heap, Ref(BaseConfigAddr)), None)
               : heap \in {HeapOf(result.value.config, BaseConfigAddr)} })
  : result \in {loadConfig(files, [skipGlobal |-> FALSE, skipLocal |-> FALSE])} })
----------------------------------------------------------------------------
(* Merge harness: three layer objects folded in precedence order *)

ArrX  == Arr(<<Str("x")>>)
ArrYX == Arr(<<Str("y"), Str("x")>>)

MergeKeys  == {"a", "b"}
GlobalValues  == { Str("s1"), Null, ArrX, ArrYX,
                   Obj([c |-> Str("s1")]), Obj([d |-> ArrX]),
                   Obj([c |-> Str("s1"), d |-> ArrX]),
                   Obj([c |-> Obj([d |-> ArrX])]),
                   Obj([c |-> Obj([d |-> ArrYX])]) }
ProjectValues == { Str("s2"), Null, ArrX, Obj([c |-> Str("s1")]),
                   Obj([d |-> ArrX]),
                   Obj([c |-> Obj([d |-> ArrYX])]) }
LocalValues   == { Str("s1"), Null, ArrYX, Obj([c |-> ArrX]),
                   Obj([d |-> Str("s1")]), Obj([c |-> Null]),
                   Obj([c |-> Obj([d |-> ArrX])]) }

IdleMerge ==
  /\ mGlobal = EmptyRec /\ mProject = EmptyRec /\ mLocal = EmptyRec
  /\ mStep = 0 /\ mBase = EmptyRec /\ mAcc = EmptyRec

MergeInit ==
  /\ mGlobal  \in RecordsOver(MergeKeys, GlobalValues)
  /\ mProject \in RecordsOver(MergeKeys, ProjectValues)
  /\ mLocal   \in RecordsOver(MergeKeys, LocalValues)
  /\ mStep = 0
  /\ mBase = EmptyRec
  /\ mAcc = mGlobal

\* deepMerge(global, project)
MergeProject ==
  /\ mStep = 0
  /\ mBase' = mAcc
  /\ mAcc' = deepMerge(mAcc, mProject)
  /\ mStep' = 1
  /\ UNCHANGED <<mGlobal, mProject, mLocal, loadVars, textVars, routeVars>>

\* deepMerge(deepMerge(global, project), local)
MergeLocal ==
  /\ mStep = 1
  /\ mBase' = mAcc
  /\ mAcc' = deepMerge(mAcc, mLocal)
  /\ mStep' = 2
  /\ UNCHANGED <<mGlobal, mProject, mLocal, loadVars, textVars, routeVars>>

----------------------------------------------------------------------------
(* The calls made on the program *)

\* No call has ended yet.
Pending == Returned(Undefined)

DefaultOptions == [skipGlobal |-> FALSE, skipLocal |-> FALSE]

NotConsumed == [by |-> "none", baseConfig |-> Null, after |-> Null, produced |-> <<>>]

IdleLoad ==
  /\ fs = [p \in Paths |-> NoFile]
  /\ loadOpts = DefaultOptions
  /\ loadResult = Pending
  /\ loadMerged = Undefined
  /\ altResult = Pending
  /\ consumed = NotConsumed

NoRoundTrip == [by |-> "none", first |-> Undefined, again |-> Pending]

IdleText ==
  /\ text = Malformed
  /\ parseResult = Pending
  /\ validResult = Pending
  /\ roundTrip = NoRoundTrip

HookAction == Obj([action |-> Str("notify.send")])

\* Documents a layer file may hold.
LayerObjects ==
  { EmptyObj,
    Obj([name |-> Str("test")]),
    Obj([name |-> Str("other"),
         plugins |-> Arr(<<Str("jj-opencode@1.0.0")>>)]),
    Obj([description |-> Str("d")]),
    Obj([plugins |-> Arr(<<Str("oh-my-opencode@2.2.0"), Str("jj-opencode@1.0.0")>>)]),
    Obj([hooks |-> Obj([pre_agent |-> Arr(<<HookAction>>)])]),
    Obj([hooks |-> Obj([invalid_event |-> Arr(<<HookAction>>)])]),
    Obj([unknown_key |-> Str("v")]) }

\* Documents that are not a plain object: an empty file, a scalar, a list,
\* an empty list.
NonObjects == { Null, Str("just text"), Arr(<<Str("x")>>), Arr(<<>>) }

LayerContents  == {NoFile, Malformed}
                  \cup { Yaml(d) : d \in LayerObjects \cup NonObjects }
LegacyContents == {Malformed, Yaml(Obj([name |-> Str("legacy")]))}

Layers == {"global", "project", "local"}

\* At most this many layers also hold a file under the legacy .yml name.
MaxLegacyFiles == 1

LegacyChoices ==
  { a \in [Layers -> {NoFile} \cup LegacyContents] :
      Cardinality({ l \in Layers : a[l] # NoFile }) <= MaxLegacyFiles }

LayerDir(layer) == IF layer = "global" THEN GlobalDir ELSE ProjectDir
LayerFilenames(layer) ==
  IF layer = "local" THEN LOCAL_OVERRIDE_FILENAMES ELSE CONFIG_FILENAMES
PrimaryPath(layer) == join(LayerDir(layer), LayerFilenames(layer)[1])
LegacyPath(layer)  == join(LayerDir(layer), LayerFilenames(layer)[2])

FilesOf(primary, legacy) ==
  [p \in Paths |->
     LET layer == CHOOSE l \in Layers : p \in {PrimaryPath(l), LegacyPath(l)}
     IN IF p = PrimaryPath(layer) THEN primary[layer] ELSE legacy[layer]]

LoadInit ==
  /\ \E primary \in [Layers -> LayerContents], legacy \in LegacyChoices :
       fs = FilesOf(primary, legacy)
  /\ loadOpts = DefaultOptions
  /\ loadResult = Pending
  /\ loadMerged = Undefined
  /\ altResult = Pending
  /\ consumed = NotConsumed

Options == [skipGlobal : BOOLEAN, skipLocal : BOOLEAN]

MergedOf(state) == IF state.threw THEN Undefined ELSE state.value.mergedConfig

\* loadConfig(options), helpers extracted.  A command resolves its
\* configuration once.
LoadConfig ==
  \E options \in Options :
    /\ loadResult = Pending
    /\ loadOpts' = options
    /\ loadResult' = loadConfig(fs, options)
    /\ loadMerged' = MergedOf(foldLayers(fs, options, ProjectDir, GlobalDir))
    /\ UNCHANGED <<fs, altResult, consumed, mergeVars, textVars, routeVars>>

\* loadConfig(options), layers loaded inline
LoadConfigInline ==
  \E options \in Options :
    /\ loadResult = Pending
    /\ loadOpts' = options
    /\ loadResult' = loadConfigInline(fs, options)
    /\ loadMerged' = MergedOf(foldLayersInline(fs, options, ProjectDir, GlobalDir))
    /\ UNCHANGED <<fs, altResult, consumed, mergeVars, textVars, routeVars>>

Init == IdleMerge /\ LoadInit /\ IdleText /\ IdleRoute
Next == LoadConfig \/ LoadConfigInline
Spec == Init /\ [][Next]_vars

\* The files with the layer's legacy .yml file holding content instead.
WithLegacy(files, layer, content) ==
  [files EXCEPT ![LegacyPath(layer)] = content]

BothNamesExist(layer) ==
  fs[PrimaryPath(layer)] # NoFile /\ fs[LegacyPath(layer)] # NoFile

\* What the .yaml files hold when a layer has both names: nothing, text that
\* is not YAML, a valid and an invalid object, an empty file, a list.
AlternateContents ==
  { NoFile, Malformed,
    Yaml(Obj([name |-> Str("test")])),
    Yaml(Obj([unknown_key |-> Str("v")])),
    Yaml(Null),
    Yaml(Arr(<<Str("x")>>)) }

\* One layer holds a file under both of its names.
AlternateInit ==
  /\ \E layer \in Layers, content \in LegacyContents :
       \E primary \in [Layers -> AlternateContents] :
         /\ primary[layer] # NoFile
         /\ fs = FilesOf(primary, [l \in Layers |->
                                     IF l = layer THEN content ELSE NoFile])
  /\ loadOpts = DefaultOptions
  /\ loadResult = Pending
  /\ loadMerged = Undefined
  /\ altResult = Pending
  /\ consumed = NotConsumed

\* loadConfig(options), helpers extracted, called on the files as they are
\* and on the files with the .yml file of the layer rewritten.
LoadConfigAlternate ==
  \E options \in Options, layer \in Layers :
    /\ loadResult = Pending
    /\ BothNamesExist(layer)
    /\ loadOpts' = options
    /\ \E content \in LegacyContents \ {fs[LegacyPath(layer)]} :
         \E rewritten \in {WithLegacy(fs, layer, content)} :
           \E outcome \in {[files \in {fs, rewritten} |-> loadConfig(files, options)]} :
             /\ loadResult' = outcome[fs]
             /\ altResult' = outcome[rewritten]
    /\ UNCHANGED <<fs, loadMerged, consumed, mergeVars, textVars, routeVars>>

\* The same of loadConfig(options) with its layers loaded inline.
LoadConfigInlineAlternate ==
  \E options \in Options, layer \in Layers :
    /\ loadResult = Pending
    /\ BothNamesExist(layer)
    /\ loadOpts' = options
    /\ \E content \in LegacyContents \ {fs[LegacyPath(layer)]} :
         \E rewritten \in {WithLegacy(fs, layer, content)} :
           \E outcome \in {[files \in {fs, rewritten} |-> loadConfigInline(files, options)]} :
             /\ loadResult' = outcome[fs]
             /\ altResult' = outcome[rewritten]
    /\ UNCHANGED <<fs, loadMerged, consumed, mergeVars, textVars, routeVars>>

InitAlternate == IdleMerge /\ AlternateInit /\ IdleText /\ IdleRoute
NextAlternate == LoadConfigAlternate \/ LoadConfigInlineAlternate
SpecAlternate == InitAlternate /\ [][NextAlternate]_vars

----------------------------------------------------------------------------
(* Texts handed to parseConfigString and validateConfig *)

\* An object document has at most this many top-level keys.
MaxKeys == 2

Sonnet == Str("anthropic/claude-sonnet-4-5")
Haiku  == Str("anthropic/claude-haiku-4-5")
Opus   == Str("anthropic/claude-opus-4-5")

Strategy(tag, fields) == Obj([strategy |-> Str(tag)] @@ fields)

\* Routing specs, well-formed and not, of every form the schema declares.
RoutingDocs ==
  { Arr(<<Sonnet>>),
    Arr(<<>>),
    Strategy("fallback", [models |-> Arr(<<Sonnet, Haiku>>)]),
    Strategy("fallback", [models |-> Arr(<<>>)]),
    Strategy("pattern", [pattern |-> Arr(<<Sonnet, Sonnet, Haiku>>)]),
    Strategy("pattern", [pattern |-> Arr(<<>>)]),
    Strategy("pattern", [pattern |-> Arr(<<Sonnet>>),
                         on_unavailable |-> Str("fallback"),
                         fallback_models |-> Arr(<<Haiku>>)]),
    Strategy("pattern", [pattern |-> Arr(<<Sonnet>>),
                         on_unavailable |-> Str("fallback"),
                         fallback_models |-> Arr(<<>>)]),
    Strategy("weighted", [weights |-> Obj([sonnet |-> Num(75), haiku |-> Num(25)])]),
    Strategy("weighted", [weights |-> Obj([sonnet |-> Num(0)])]),
    Strategy("weighted", [weights |-> EmptyObj]),
    Strategy("weighted", [weights |-> Obj([sonnet |-> Num(75), haiku |-> Num(-25)])]),
    Strategy("round_robin", [models |-> Arr(<<Sonnet, Haiku, Opus>>)]),
    Strategy("round_robin", [models |-> Arr(<<>>)]),
    Strategy("burst", [iterate |-> Haiku, final |-> Opus, burst_size |-> Num(5)]),
    Strategy("burst", [iterate |-> Haiku, final |-> Opus, burst_size |-> Num(0)]),
    Strategy("random", [models |-> Arr(<<Sonnet>>)]) }

KeyOptions ==
  [name        |-> { Str("test"), Str(""), Num(123) },
   description |-> { Str("d"), Null },
   plugins     |-> { Arr(<<Str("jj-opencode@1.0.0")>>), Arr(<<Str("jj-opencode")>>) },
   hooks       |-> { Obj([pre_agent |-> Arr(<<HookAction>>)]),
                     Obj([invalid_event |-> Arr(<<HookAction>>)]),
                     Obj([on_error |-> Arr(<<HookAction>>),
                          invalid_event |-> Arr(<<HookAction>>)]) },
   providers   |-> { Obj([anthropic |-> Obj([env |-> Str("KEY"),
                                             comment |-> Str("c")])]) },
   defaults    |-> { Obj([routing |-> r]) : r \in RoutingDocs },
   unknown_key |-> { Str("v") }]

TextObjects ==
  { Obj(r) : r \in UNION { { f \in [d -> UNION { KeyOptions[k] : k \in d }] :
                               \A k \in d : f[k] \in KeyOptions[k] } :
                           d \in { s \in SUBSET DOMAIN KeyOptions :
                                     Cardinality(s) <= MaxKeys } } }

Texts == {Malformed} \cup { Yaml(d) : d \in TextObjects \cup NonObjects }

TextInit ==
  /\ text \in Texts
  /\ parseResult = Pending
  /\ validResult = Pending
  /\ roundTrip = NoRoundTrip

FilepathArgs == { None, Some("lattice.yaml") }

ParseConfigString ==
  \E filepath \in FilepathArgs :
    /\ parseResult' = parseConfigString(text, filepath)
    /\ UNCHANGED <<text, validResult, roundTrip, mergeVars, loadVars, routeVars>>

ValidateConfig ==
  /\ validResult' = validateConfig(text)
  /\ UNCHANGED <<text, parseResult, roundTrip, mergeVars, loadVars, routeVars>>

\* The configuration validateConfig returned, serialized and validated again.
RevalidateConfig ==
  /\ validResult # Pending /\ validResult.value.success
  /\ LET config == validResult.value.config
     IN roundTrip' = [by    |-> "validateConfig",
                      first |-> config,
                      again |-> validateConfig(stringifyYaml(config))]
  /\ UNCHANGED <<text, parseResult, validResult, mergeVars, loadVars, routeVars>>

\* The configuration parseConfigString returned, serialized and parsed again.
ReparseConfigString ==
  /\ parseResult # Pending /\ ~parseResult.threw
  /\ \E filepath \in FilepathArgs :
       roundTrip' = [by    |-> "parseConfigString",
                     first |-> parseResult.value,
                     again |-> parseConfigString(stringifyYaml(parseResult.value),
                                                 filepath)]
  /\ UNCHANGED <<text, parseResult, validResult, mergeVars, loadVars, routeVars>>

InitText == IdleMerge /\ IdleLoad /\ TextInit /\ IdleRoute
NextText ==
  ParseConfigString \/ ValidateConfig \/ RevalidateConfig \/ ReparseConfigString
SpecText == InitText /\ [][NextText]_vars

\* The merge harness on its own.
InitMerge == MergeInit /\ IdleLoad /\ IdleText /\ IdleRoute
NextMerge == MergeProject \/ MergeLocal
SpecMerge == InitMerge /\ [][NextMerge]_vars

----------------------------------------------------------------------------
(* Route calls one after another *)

raceVars == <<lock, pc, held>>

RouteInit ==
  /\ agentRouting \in RoutingSpecs
  /\ routing_state = NoState
  /\ calls = <<>>
  /\ fresh = TRUE
  /\ routed = 0
  /\ edits = 0
  /\ lock = Free
  /\ pc = [p \in Procs |-> "idle"]
  /\ held = [p \in Procs |-> NoState]

\* route(agent), whole: the state is read, the model selected, the state
\* written, with the availability check answering avail.
Route ==
  /\ routed < MaxCalls
  /\ \E avail \in SUBSET Models :
       \E result \in route(agentRouting, routing_state, avail) :
         /\ routing_state' = result.state
         /\ calls' = Append(calls, result)
  /\ routed' = routed + 1
  /\ UNCHANGED <<agentRouting, fresh, edits, raceVars, mergeVars, loadVars, textVars>>

\* The user edits the agent's routing spec; the persisted state stays as it is.
EditConfig ==
  /\ edits < MaxEdits
  /\ \E routing \in RoutingSpecs \ {agentRouting} :
       /\ agentRouting' = routing
       /\ fresh' = (routing_state.strategy # routing.strategy)
  /\ calls' = <<>>
  /\ edits' = edits + 1
  /\ UNCHANGED <<routing_state, routed, raceVars, mergeVars, loadVars, textVars>>

\* The explicit trigger or external reset that starts a new burst.
ResetBurst ==
  /\ edits < MaxEdits
  /\ agentRouting.strategy = "burst"
  /\ routing_state.strategy = "burst"
  /\ routing_state' = [routing_state EXCEPT !.burst_count = 0]
  /\ calls' = <<>>
  /\ fresh' = TRUE
  /\ edits' = edits + 1
  /\ UNCHANGED <<agentRouting, routed, raceVars, mergeVars, loadVars, textVars>>

InitRoute == IdleMerge /\ IdleLoad /\ IdleText /\ RouteInit
NextRoute == Route \/ EditConfig \/ ResetBurst
SpecRoute == InitRoute /\ [][NextRoute]_vars

----------------------------------------------------------------------------
(* Concurrent route calls on one agent's state *)

\* States the state file may hold when the invocations start: none, one left
\* by earlier calls under the configured strategy, one left under another.
StatesLeft(routing) ==
  { NoState,
    RoutingState(routing.strategy, 1, 1, 1, "sonnet", EmptyRec),
    RoutingState(IF routing.strategy = "pattern" THEN "round_robin" ELSE "pattern",
                 1, 3, 0, "haiku", EmptyRec) }

RaceSpecs ==
  { RoundRobinSpec, BurstSpec, MalformedSpec,
    Pattern(<<"sonnet", "haiku">>, "retry", <<>>) }

RaceInit ==
  /\ agentRouting \in RaceSpecs
  /\ routing_state \in StatesLeft(agentRouting)
  /\ calls = <<>>
  /\ fresh = FALSE
  /\ routed = 0
  /\ edits = 0
  /\ lock = Free
  /\ pc = [p \in Procs |-> "idle"]
  /\ held = [p \in Procs |-> routing_state]

\* An invocation takes the exclusive hold and reads the state file.
Acquire ==
  \E p \in Procs :
    /\ pc[p] = "idle"
    /\ CanAcquire(lock)
    /\ lock' = p
    /\ held' = [held EXCEPT ![p] = routing_state]
    /\ pc' = [pc EXCEPT ![p] = "holding"]
    /\ UNCHANGED <<agentRouting, routing_state, calls, fresh, routed, edits,
                   mergeVars, loadVars, textVars>>

\* It selects on the state it read and writes the next state; a spec that
\* fails validation ends the call with the state file untouched.
SelectAndWrite ==
  \E p \in Procs :
    /\ pc[p] = "holding"
    /\ \E avail \in SUBSET Models :
         \E result \in route(agentRouting, held[p], avail) :
           /\ routing_state' = IF result.outcome = "invalid_spec"
                               THEN routing_state ELSE result.state
           /\ calls' = Append(calls, result)
    /\ routed' = routed + 1
    /\ pc' = [pc EXCEPT ![p] = "written"]
    /\ UNCHANGED <<agentRouting, fresh, edits, lock, held,
                   mergeVars, loadVars, textVars>>

\* It gives the hold back, on every way out of the call.
Release ==
  \E p \in Procs :
    /\ pc[p] = "written"
    /\ lock' = IF lock = p THEN Free ELSE lock
    /\ pc' = [pc EXCEPT ![p] = "done"]
    /\ UNCHANGED <<agentRouting, routing_state, calls, fresh, routed, edits, held,
                   mergeVars, loadVars, textVars>>

InitRace == IdleMerge /\ IdleLoad /\ IdleText /\ RaceInit
NextRace == Acquire \/ SelectAndWrite \/ Release
SpecRace == InitRace /\ [][NextRace]_vars
----------------------------------------------------------------------------
(* The consumers of a loaded configuration *)

GithubServer == Obj([enabled |-> Bool(TRUE), command |-> Str("gh-mcp")])
OmoPlugin    == Obj([theme |-> Str("dark")])

\* What project/lattice.yaml holds when a consumer runs.
ConsumedConfigs ==
  { NoFile, Malformed,
    Yaml(Obj([name |-> Str("test")])),
    Yaml(Obj([name |-> Str("test"), mcp |-> Obj([github |-> GithubServer])])),
    Yaml(Obj([name |-> Str("test"), mcp |-> EmptyObj])),
    Yaml(Obj([name |-> Str("test"),
              plugin_config |-> Obj("oh-my-opencode" :> OmoPlugin)])),
    Yaml(Obj([name |-> Str("test"),
              mcp |-> Obj([github |-> GithubServer]),
              plugin_config |-> Obj([other |-> OmoPlugin])])) }

\* What readRuntimeOverrides finds in opencode.json and oh-my-opencode.json.
OverrideOptions ==
  [mcpServers      |-> { Obj([github |-> Obj([command |-> Str("other")])]),
                         Obj([linear |-> Obj([command |-> Str("linear-mcp")])]) },
   disabled_mcps   |-> { Arr(<<Str("github")>>) },
   disabled_agents |-> { Arr(<<Str("oracle")>>) },
   disabled_hooks  |-> { Arr(<<Str("comment-checker")>>) }]

RuntimeOverrides ==
  UNION { { f \in [d -> UNION { OverrideOptions[k] : k \in d }] :
              \A k \in d : f[k] \in OverrideOptions[k] } :
          d \in SUBSET DOMAIN OverrideOptions }

\* What embedLocalContent finds in the agents and commands directories.
EmbeddedContents ==
  { EmptyObj, Obj([agents |-> Obj([quick |-> Str("# quick")])]) }

ConsumerInit ==
  /\ \E content \in ConsumedConfigs :
       fs = [p \in Paths |->
               IF p = join(ProjectDir, CONFIG_FILENAMES[1]) THEN content
               ELSE NoFile]
  /\ loadOpts = DefaultOptions
  /\ loadResult = Pending
  /\ loadMerged = Undefined
  /\ altResult = Pending
  /\ consumed = NotConsumed

\* lattice snapshot: generateFrozenConfig(projectDir)
GenerateFrozenConfig ==
  /\ consumed = NotConsumed
  /\ \E overrides \in RuntimeOverrides, embedded \in EmbeddedContents :
       consumed' = generateFrozenConfig(fs, overrides, embedded)
  /\ UNCHANGED <<fs, loadOpts, loadResult, loadMerged, altResult,
                 mergeVars, textVars, routeVars>>

\* lattice status: displayConfigDetails(projectDir, globalConfigDir)
DisplayConfigDetails ==
  /\ consumed = NotConsumed
  /\ consumed' = displayConfigDetails(fs)
  /\ UNCHANGED <<fs, loadOpts, loadResult, loadMerged, altResult,
                 mergeVars, textVars, routeVars>>

InitConsumers == IdleMerge /\ ConsumerInit /\ IdleText /\ IdleRoute
NextConsumers == GenerateFrozenConfig \/ DisplayConfigDetails
SpecConsumers == InitConsumers /\ [][NextConsumers]_vars
----------------------------------------------------------------------------
(* Vocabulary of the properties *)

Called == loadResult # Pending

\* The layer is searched by the call (not skipped by skipGlobal / skipLocal).
Consulted(layer) ==
  /\ ~(layer = "global" /\ loadOpts.skipGlobal)
  /\ ~(layer = "local" /\ loadOpts.skipLocal)

\* The file a layer is read from: the .yaml name, else the .yml name.
PathRead(layer) ==
  IF fs[PrimaryPath(layer)] # NoFile THEN PrimaryPath(layer) ELSE LegacyPath(layer)
FileRead(layer) == fs[PathRead(layer)]

LayerFound(layer)     == Consulted(layer) /\ FileRead(layer) # NoFile
LayerMalformed(layer) == LayerFound(layer) /\ FileRead(layer).syntax = "malformed"
LayerObject(layer) ==
  /\ LayerFound(layer)
  /\ FileRead(layer).syntax = "ok"
  /\ FileRead(layer).doc.t = "object"
LayerDefines(layer, key) ==
  LayerObject(layer) /\ key \in DOMAIN FileRead(layer).doc.v
LayerValue(layer, key) == FileRead(layer).doc.v[key]

Rank(layer) == CASE layer = "global" -> 1 [] layer = "project" -> 2 [] layer = "local" -> 3
Highest(layers) == CHOOSE l \in layers : \A m \in layers : Rank(m) <= Rank(l)
Lowest(layers)  == CHOOSE l \in layers : \A m \in layers : Rank(l) <= Rank(m)

LayerKeys == UNION { DOMAIN d.v : d \in LayerObjects }

\* The three error kinds, as they can be told apart on the raised error.
IsNotFoundError(e) ==
  e.message.parts[1] = "No lattice config found. Searched:" /\ e.zodErrors = None
IsParseError(e) ==
  e.message.parts[1] = "Failed to parse " /\ e.zodErrors = None
IsValidationError(e) ==
  e.message.parts[1] = "Invalid lattice config: " /\ e.zodErrors # None

\* The top-level keys the configuration schema declares.
DeclaredKeys ==
  { "name", "description", "version", "author", "vcs", "plugins", "providers",
    "defaults", "agents", "plugin_config", "mcp", "commands", "hooks" }

\* The five hook events.
FiveHookEvents ==
  { "pre_agent", "post_agent", "on_rate_limit", "on_budget_exceeded", "on_error" }

----------------------------------------------------------------------------
(* Properties of the merge *)

\* C1: a top-level key that is a scalar or an array in every layer defining
\* it resolves, in the configuration folded by loadConfig, to the value of
\* the highest-precedence layer that defines it (local over project over
\* global), for every combination of present layers.
C1_HighestLayerWins ==
  (Called /\ loadMerged # Undefined) =>
    \A key \in LayerKeys :
      LET defining == { l \in Layers : LayerDefines(l, key) }
      IN (defining # {} /\ \A l \in defining : LayerValue(l, key).t # "object")
         => /\ loadMerged.t = "object"
            /\ key \in DOMAIN loadMerged.v
            /\ loadMerged.v[key] = LayerValue(Highest(defining), key)

\* C1 witness: all three layers define name, the lower two differently from
\* local, and the folded configuration carries local's name.
C1_Witness ==
  /\ Called /\ loadMerged # Undefined
  /\ \A l \in Layers : LayerDefines(l, "name")
  /\ LayerValue("global", "name") # LayerValue("local", "name")
  /\ LayerValue("project", "name") # LayerValue("local", "name")
  /\ loadMerged.v["name"] = LayerValue("local", "name")

InAllThree == (DOMAIN mGlobal \cap DOMAIN mProject) \cap DOMAIN mLocal

\* C2 as stated: every key present in all three layers takes local's value.
C2_LocalValueForSharedKeys ==
  mStep = 2 => \A key \in InAllThree : mAcc[key] = mLocal[key]

\* C2 amended: every key present in all three layers takes local's value,
\* unless its values in project and in local are both plain objects; then it
\* takes their recursive merge, a plain object that keeps every entry of
\* local's object that is not itself a plain object.
C2_LocalValueUnlessObjects ==
  mStep = 2 =>
    \A key \in InAllThree :
      IF isPlainObject(mProject[key]) /\ isPlainObject(mLocal[key])
      THEN /\ isPlainObject(mAcc[key])
           /\ \A k \in DOMAIN mLocal[key].v :
                ~isPlainObject(mLocal[key].v[k]) =>
                  /\ k \in DOMAIN mAcc[key].v
                  /\ mAcc[key].v[k] = mLocal[key].v[k]
      ELSE mAcc[key] = mLocal[key]

\* C2 witness: a key shared by the three layers, an array in global and a
\* scalar in project, has taken local's plain-object value.
C2_Witness ==
  /\ mStep = 2
  /\ \E key \in InAllThree :
       /\ mGlobal[key].t = "array" /\ mProject[key].t = "string"
       /\ isPlainObject(mLocal[key])
       /\ mAcc[key] = mLocal[key]

MergeOverride == IF mStep = 1 THEN mProject ELSE mLocal

\* Every array of override is in result as it is, at this level and below.
RECURSIVE ArraysReplaced(_, _, _)
ArraysReplaced(base, override, result) ==
  \A key \in DOMAIN override :
    /\ override[key].t = "array" =>
         key \in DOMAIN result /\ result[key] = override[key]
    /\ (HasPlainObject(base, key) /\ isPlainObject(override[key])) =>
         /\ key \in DOMAIN result /\ isPlainObject(result[key])
         /\ ArraysReplaced(base[key].v, override[key].v, result[key].v)

\* C3: arrays are never concatenated, de-duplicated or merged element-wise:
\* if override[key] is an array, deepMerge(base, override)[key] equals it
\* exactly, whatever base[key] is, at every nesting depth.
C3_ArraysReplacedWholesale ==
  mStep >= 1 => ArraysReplaced(mBase, MergeOverride, mAcc)

\* C3 witness: two levels down, base and override hold different arrays under
\* the same key and the result holds override's.
C3_Witness ==
  /\ mStep >= 1
  /\ \E k \in DOMAIN mBase \cap DOMAIN MergeOverride :
       /\ HasPlainObject(mBase, k) /\ HasPlainObject(MergeOverride, k)
       /\ HasPlainObject(mBase[k].v, "c") /\ HasPlainObject(MergeOverride[k].v, "c")
       /\ "d" \in DOMAIN mBase[k].v["c"].v /\ "d" \in DOMAIN MergeOverride[k].v["c"].v
       /\ mBase[k].v["c"].v["d"].t = "array"
       /\ MergeOverride[k].v["c"].v["d"].t = "array"
       /\ mBase[k].v["c"].v["d"] # MergeOverride[k].v["c"].v["d"]
       /\ mAcc[k].v["c"].v["d"] = MergeOverride[k].v["c"].v["d"]

----------------------------------------------------------------------------
(* Properties of validation *)

\* The issues a failed loadConfig / parseConfigString call carries.
IssuesOf(result) == result.error.zodErrors[1]

\* C4: a configuration object with a top-level key outside the declared set
\* fails validation and the failure names the key, whichever layer the key
\* of the merged object came from.
C4_UnknownTopLevelKeyRejected ==
  (Called /\ loadMerged # Undefined /\ loadMerged.t = "object") =>
    \A key \in DOMAIN loadMerged.v \ DeclaredKeys :
      /\ loadResult.threw
      /\ IsValidationError(loadResult.error)
      /\ \E i \in IssuesOf(loadResult) :
           i.code = "unrecognized_keys" /\ i.path = <<>> /\ key \in i.keys
      /\ \E i \in loadResult.error.message.issues : key \in i.keys

\* C4 witness: the unknown key comes from the global layer only, local adds
\* the name, and the validation error names the key.
C4_Witness ==
  /\ Called /\ loadResult.threw
  /\ LayerDefines("global", "unknown_key")
  /\ ~LayerDefines("project", "unknown_key")
  /\ LayerDefines("local", "name") /\ ~LayerDefines("local", "unknown_key")
  /\ IsValidationError(loadResult.error)
  /\ IssuesOf(loadResult) = {KeysIssue("unrecognized_keys", <<>>, {"unknown_key"})}

TextIsObject == text.syntax = "ok" /\ text.doc.t = "object"

NameOnly ==
  /\ TextIsObject
  /\ DOMAIN text.doc.v = {"name"}
  /\ text.doc.v["name"].t = "string"
  /\ text.doc.v["name"].v # ""

NameMissing == TextIsObject /\ "name" \notin DOMAIN text.doc.v

NamesField(issues, field) == \E i \in issues : i.path = <<field>>

\* C5: name is the only required field: an object holding just a non-empty
\* string name validates with all optional fields absent, and an object
\* without name fails validation with a violation whose path is name.
C5_NameOnlyRequired ==
  /\ (validResult # Pending /\ NameOnly) =>
       /\ validResult.value.success
       /\ validResult.value.config = text.doc
  /\ (parseResult # Pending /\ NameOnly) =>
       ~parseResult.threw /\ parseResult.value = text.doc
  /\ (validResult # Pending /\ NameMissing) =>
       /\ ~validResult.value.success
       /\ NamesField(validResult.value.zodErrors[1], "name")
  /\ (parseResult # Pending /\ NameMissing) =>
       /\ parseResult.threw
       /\ NamesField(IssuesOf(parseResult), "name")

\* C5 witness: a document with a description and no name has been refused
\* by both entry points, the only violation being at name.
C5_Witness ==
  /\ TextIsObject /\ DOMAIN text.doc.v = {"description"}
  /\ text.doc.v["description"].t = "string"
  /\ validResult # Pending /\ ~validResult.value.success
  /\ validResult.value.zodErrors = Some({Issue("invalid_type", <<"name">>)})
  /\ parseResult.threw
  /\ IssuesOf(parseResult) = {Issue("invalid_type", <<"name">>)}

HooksGiven ==
  /\ TextIsObject
  /\ "hooks" \in DOMAIN text.doc.v
  /\ text.doc.v["hooks"].t = "object"
UnknownHookEvents == DOMAIN text.doc.v["hooks"].v \ FiveHookEvents

RejectsHookEvents(issues, events) ==
  \E i \in issues :
    i.code = "unrecognized_keys" /\ i.path = <<"hooks">> /\ i.keys = events

\* C6: the hooks map is closed over exactly the five events: a configuration
\* with any other key under hooks fails validation, and one with a name and
\* hooks over the five events only (each a list of actions) validates.
C6_HooksClosed ==
  HooksGiven =>
    /\ (validResult # Pending /\ UnknownHookEvents # {}) =>
         /\ ~validResult.value.success
         /\ RejectsHookEvents(validResult.value.zodErrors[1], UnknownHookEvents)
    /\ (parseResult # Pending /\ UnknownHookEvents # {}) =>
         /\ parseResult.threw
         /\ RejectsHookEvents(IssuesOf(parseResult), UnknownHookEvents)
    /\ ( /\ validResult # Pending /\ UnknownHookEvents = {}
         /\ DOMAIN text.doc.v = {"name", "hooks"}
         /\ text.doc.v["name"] = Str("test") ) => validResult.value.success

\* C6 witness: name: test with hooks over on_error and invalid_event has been
\* refused for invalid_event alone.
C6_Witness ==
  /\ HooksGiven /\ DOMAIN text.doc.v = {"name", "hooks"}
  /\ text.doc.v["name"] = Str("test")
  /\ DOMAIN text.doc.v["hooks"].v = {"on_error", "invalid_event"}
  /\ validResult # Pending /\ ~validResult.value.success
  /\ validResult.value.zodErrors =
       Some({KeysIssue("unrecognized_keys", <<"hooks">>, {"invalid_event"})})

\* C7: validateConfig never throws: it returns success with the validated
\* configuration, or failure with an error message, which contains
\* 'Invalid YAML' for malformed YAML and carries the schema violations for
\* well-formed text that the schema refuses.
C7_ValidateConfigNeverThrows ==
  validResult # Pending =>
    /\ ~validResult.threw
    /\ LET r == validResult.value
       IN /\ r.success =>
               /\ text.syntax = "ok"
               /\ r.config.t = "object"
               /\ r.error = None
               /\ safeParse(LatticeConfigSchema, r.config).success
          /\ ~r.success => r.error # None /\ r.config = Undefined
          /\ text.syntax = "malformed" =>
               /\ ~r.success
               /\ r.error[1].parts[1] = "Invalid YAML syntax: "
               /\ r.zodErrors = None
          /\ (text.syntax = "ok" /\ ~r.success) =>
               /\ r.zodErrors # None /\ r.zodErrors[1] # {}
               /\ r.error[1].issues = r.zodErrors[1]
               /\ r.zodErrors[1] = safeParse(LatticeConfigSchema, text.doc).issues

\* C7 witness: malformed YAML has been answered with a failure result.
C7_Witness ==
  /\ text.syntax = "malformed"
  /\ validResult # Pending /\ ~validResult.threw
  /\ ~validResult.value.success
  /\ validResult.value.error[1].parts[1] = "Invalid YAML syntax: "

----------------------------------------------------------------------------
(* Properties of the errors loadConfig raises *)

\* C8: loadConfig raises the not-found error only when no configuration file
\* exists at any searched layer.
C8_NotFoundOnlyWithoutFiles ==
  (Called /\ loadResult.threw /\ IsNotFoundError(loadResult.error)) =>
    \A l \in Layers : ~LayerFound(l)

MalformedLayers == { l \in Layers : LayerMalformed(l) }

\* C9: a failing loadConfig raises exactly one of the three error kinds, told
\* apart on the raised error; a malformed file at a consulted layer yields
\* the parse error carrying the path of that file (the first one read),
\* never a validation or a not-found error.
C9_ErrorKindsDisjoint ==
  Called =>
    /\ loadResult.threw =>
         /\ loadResult.error.name = "ConfigError"
         /\ Cardinality({ k \in {"notfound", "parse", "validation"} :
              CASE k = "notfound"   -> IsNotFoundError(loadResult.error)
                [] k = "parse"      -> IsParseError(loadResult.error)
                [] k = "validation" -> IsValidationError(loadResult.error) }) = 1
         /\ IsParseError(loadResult.error) => MalformedLayers # {}
    /\ MalformedLayers # {} =>
         /\ loadResult.threw
         /\ IsParseError(loadResult.error)
         /\ loadResult.error.path = Some(PathRead(Lowest(MalformedLayers)))
         /\ loadResult.error.message.parts[2] = PathRead(Lowest(MalformedLayers))

\* C9 witness: global holds a valid object, the project file is malformed,
\* and the call raised the parse error carrying the project file's path.
C9_Witness ==
  /\ Called /\ loadResult.threw
  /\ LayerObject("global") /\ LayerMalformed("project")
  /\ IsParseError(loadResult.error)
  /\ loadResult.error.path = Some(PathRead("project"))

\* An issue of the merged configuration that the layer's own document shows.
SameViolation(i, j) ==
  /\ i.code = j.code /\ i.path = j.path
  /\ (i.keys = {} /\ j.keys = {}) \/ i.keys \cap j.keys # {}
Offending(layer) ==
  /\ LayerObject(layer)
  /\ \E i \in safeParse(LatticeConfigSchema, FileRead(layer).doc).issues,
        j \in IssuesOf(loadResult) : SameViolation(i, j)

\* C10: when loadConfig fails validation, the path carried by the error is
\* the path of the layer whose content introduced the violation.
C10_ErrorPathIsOffendingLayer ==
  (Called /\ loadResult.threw /\ IsValidationError(loadResult.error)) =>
    /\ loadResult.error.path # None
    /\ \E l \in Layers :
         loadResult.error.path = Some(PathRead(l)) /\ Offending(l)

----------------------------------------------------------------------------
(* Properties of the violation list *)

TopLevel(key) == key \in DOMAIN text.doc.v
Field(key)    == text.doc.v[key]

\* Each independent violation of the text's document is named by an issue.
EnumeratesOffences(issues) ==
  /\ ~TopLevel("name") => Issue("invalid_type", <<"name">>) \in issues
  /\ (TopLevel("name") /\ Field("name").t # "string") =>
       Issue("invalid_type", <<"name">>) \in issues
  /\ (TopLevel("name") /\ Field("name") = Str("")) =>
       Issue("too_small", <<"name">>) \in issues
  /\ \A key \in DOMAIN text.doc.v \ DeclaredKeys :
       \E i \in issues :
         i.code = "unrecognized_keys" /\ i.path = <<>> /\ key \in i.keys
  /\ HooksGiven =>
       \A event \in UnknownHookEvents :
         \E i \in issues :
           /\ i.code = "unrecognized_keys"
           /\ i.path = <<"hooks">>
           /\ event \in i.keys
  /\ (TopLevel("description") /\ Field("description").t # "string") =>
       Issue("invalid_type", <<"description">>) \in issues
  /\ (TopLevel("plugins") /\ Field("plugins").t = "array") =>
       \A n \in DOMAIN Field("plugins").v :
         ~Matches("PluginRef", Field("plugins").v[n].v) =>
           \E i \in issues : i.path = <<"plugins", IndexKeys[n]>>

\* C11: a validation failure enumerates every offending field path: a
\* document with several independent violations (name missing or ill-typed,
\* unknown top-level keys, unknown hook events, an ill-typed description, a
\* malformed plugin reference) fails with an entry for each of them, from
\* parseConfigString and from validateConfig alike.
C11_EveryViolationListed ==
  TextIsObject =>
    /\ (validResult # Pending /\ ~validResult.value.success) =>
         EnumeratesOffences(validResult.value.zodErrors[1])
    /\ (parseResult # Pending /\ parseResult.threw) =>
         EnumeratesOffences(IssuesOf(parseResult))

\* C11 witness: a document with no name, an unknown top-level key and an
\* unknown hook event has been refused with exactly those three entries.
C11_Witness ==
  /\ TextIsObject /\ DOMAIN text.doc.v = {"unknown_key", "hooks"}
  /\ DOMAIN Field("hooks").v = {"invalid_event"}
  /\ validResult # Pending /\ ~validResult.value.success
  /\ validResult.value.zodErrors =
       Some({ Issue("invalid_type", <<"name">>),
              KeysIssue("unrecognized_keys", <<>>, {"unknown_key"}),
              KeysIssue("unrecognized_keys", <<"hooks">>, {"invalid_event"}) })
  /\ parseResult.threw
  /\ IssuesOf(parseResult) = validResult.value.zodErrors[1]

Undeclared(config, section, entry, key) ==
  /\ section \in DOMAIN config.v
  /\ entry \in DOMAIN config.v[section].v
  /\ key \in DOMAIN config.v[section].v[entry].v

\* C12: validation is an idempotent canonicalization: a configuration that
\* validation returned, serialized to YAML and validated again, is accepted
\* and comes out equal to itself, also when the first validation dropped
\* undeclared nested keys of the input.
C12_ValidationIdempotent ==
  /\ roundTrip.by = "validateConfig" =>
       /\ ~roundTrip.again.threw
       /\ roundTrip.again.value.success
       /\ roundTrip.again.value.config = roundTrip.first
  /\ roundTrip.by = "parseConfigString" =>
       /\ ~roundTrip.again.threw
       /\ roundTrip.again.value = roundTrip.first

\* C12 witness: the input carried providers.anthropic.comment, which the
\* first validation dropped, and the second validation returned the same
\* configuration.
C12_Witness ==
  /\ TextIsObject
  /\ Undeclared(text.doc, "providers", "anthropic", "comment")
  /\ roundTrip.by = "validateConfig"
  /\ roundTrip.first # text.doc
  /\ ~Undeclared(roundTrip.first, "providers", "anthropic", "comment")
  /\ roundTrip.first.v["providers"].v["anthropic"].v["env"] = Str("KEY")
  /\ roundTrip.again.value.success
  /\ roundTrip.again.value.config = roundTrip.first

----------------------------------------------------------------------------
(* Properties of the loaded sources *)

Succeeded == Called /\ ~loadResult.threw
Sources   == loadResult.value.sources

\* C13: on a successful loadConfig, sources has an entry for a layer exactly
\* when the layer was consulted (not skipped), a file was found for it and
\* the file's content decoded to a plain object (which was merged); the
\* entry is the path of the file read.
C13_SourcesIffObjectLayerMerged ==
  Succeeded =>
    \A layer \in Layers :
      /\ layer \in DOMAIN Sources <=> LayerObject(layer)
      /\ layer \in DOMAIN Sources => Sources[layer] = PathRead(layer)

----------------------------------------------------------------------------
(* Properties of validated routing specs *)

HasRouting(config) ==
  /\ config.t = "object"
  /\ "defaults" \in DOMAIN config.v
  /\ "routing" \in DOMAIN config.v["defaults"].v
RoutingOf(config) == config.v["defaults"].v["routing"]

\* The model lists a routing spec carries.
ModelLists(routing) ==
  IF routing.t = "array" THEN {routing}
  ELSE { routing.v[k] :
           k \in DOMAIN routing.v \cap {"models", "pattern", "fallback_models"} }

WellSized(routing) ==
  /\ \A list \in ModelLists(routing) : Len(list.v) >= 1
  /\ (routing.t = "object" /\ "weights" \in DOMAIN routing.v) =>
       \A m \in DOMAIN routing.v["weights"].v :
         routing.v["weights"].v[m].v > 0

\* C14: every routing spec that passes validation has at least one entry in
\* each model list it carries (a bare list, models, pattern, fallback_models),
\* and every weights value is strictly positive.
C14_ValidatedRoutingWellSized ==
  /\ (validResult # Pending /\ validResult.value.success
        /\ HasRouting(validResult.value.config)) =>
       WellSized(RoutingOf(validResult.value.config))
  /\ (parseResult # Pending /\ ~parseResult.threw
        /\ HasRouting(parseResult.value)) =>
       WellSized(RoutingOf(parseResult.value))
----------------------------------------------------------------------------
(* Properties of routing *)

Strategy_(tag) == agentRouting.strategy = tag
NumCalls == Len(calls)

PatternLength == Len(agentRouting.pattern)

\* Every run of N consecutive calls that found their model available took
\* each of the N slots once.
EachSlotOncePerCycle ==
  \A j \in 1..(NumCalls - PatternLength + 1) :
    LET run == j..(j + PatternLength - 1)
    IN (\A i \in run : calls[i].available) =>
         { calls[i].slot : i \in run } = 0..(PatternLength - 1)

\* No N+1 consecutive calls are scheduled on one slot.
NeverStalled ==
  \A j \in 1..(NumCalls - PatternLength) :
    \E i \in j..(j + PatternLength - 1) : calls[i].slot # calls[i + 1].slot

Following(slot) == (slot + 1) % PatternLength

IsStale(state) == state.strategy # agentRouting.strategy

AsOnNewState(call) ==
  \E avail \in SUBSET Models :
    [call EXCEPT !.before = NoState] \in route(agentRouting, NoState, avail)

----------------------------------------------------------------------------
(* Properties of concurrent routing *)

Completed == { p \in Procs : pc[p] = "done" }
InFlight  == { p \in Procs : pc[p] \in {"holding", "written"} }

\* The count the first invocation started from.
StartCount ==
  IF IsStale(calls[1].before) THEN 0 ELSE calls[1].before.call_count

----------------------------------------------------------------------------
(* Properties of deepMerge, key by key *)

\* result is the reference merge of base and override: the keys of both, a
\* key of one alone with that one's value, a key of both with the recursive
\* merge of two plain objects and with override's value otherwise.
RECURSIVE ReferenceMerge(_, _, _)
ReferenceMerge(base, override, result) ==
  /\ DOMAIN result = DOMAIN base \cup DOMAIN override
  /\ \A key \in DOMAIN base \ DOMAIN override : result[key] = base[key]
  /\ \A key \in DOMAIN override \ DOMAIN base : result[key] = override[key]
  /\ \A key \in DOMAIN base \cap DOMAIN override :
       IF base[key].t = "object" /\ override[key].t = "object"
       THEN /\ result[key].t = "object"
            /\ ReferenceMerge(base[key].v, override[key].v, result[key].v)
       ELSE result[key] = override[key]

\* C21: deepMerge(base, override) equals the reference merge at every nesting
\* depth: a key only in base keeps base's value, a key only in override takes
\* override's, a key in both whose two values are plain objects takes their
\* recursive merge, and any other key in both takes override's value.
C21_DeepMergeIsReferenceMerge ==
  mStep >= 1 => ReferenceMerge(mBase, MergeOverride, mAcc)

\* C21 witness: one merge in which a key of both holds plain objects that
\* themselves hold plain objects under c, and the result under c.d is
\* override's while the result under the key is neither side's value.
C21_Witness ==
  /\ mStep >= 1
  /\ \E k \in DOMAIN mBase \cap DOMAIN MergeOverride :
       /\ HasPlainObject(mBase, k) /\ HasPlainObject(MergeOverride, k)
       /\ HasPlainObject(mBase[k].v, "c") /\ HasPlainObject(MergeOverride[k].v, "c")
       /\ mAcc[k] # mBase[k] /\ mAcc[k] # MergeOverride[k]
       /\ DOMAIN mAcc[k].v = DOMAIN mBase[k].v \cup DOMAIN MergeOverride[k].v
       /\ DOMAIN mBase[k].v \ DOMAIN MergeOverride[k].v # {}
  /\ DOMAIN mBase \ DOMAIN MergeOverride # {}

\* Every null of override is in result under its key, at this level and below.
RECURSIVE NullsReplace(_, _, _)
NullsReplace(base, override, result) ==
  \A key \in DOMAIN override :
    /\ override[key] = Null => key \in DOMAIN result /\ result[key] = Null
    /\ (HasPlainObject(base, key) /\ isPlainObject(override[key])) =>
         /\ key \in DOMAIN result /\ isPlainObject(result[key])
         /\ NullsReplace(base[key].v, override[key].v, result[key].v)

\* C22: a null in an override replaces the base value and does not delete the
\* key: whenever override[key] is null, key is present in deepMerge(base,
\* override) and its value there is null, whatever base[key] is, a plain
\* object included.
C22_NullOverwrites ==
  mStep >= 1 => NullsReplace(mBase, MergeOverride, mAcc)

\* C22 witness: base holds a plain object under a key, override holds null
\* under it, and the result holds the key with null; one level down the same
\* has happened under c.
C22_Witness ==
  /\ mStep >= 1
  /\ \E k \in DOMAIN mBase \cap DOMAIN MergeOverride :
       /\ HasPlainObject(mBase, k) /\ MergeOverride[k] = Null
       /\ k \in DOMAIN mAcc /\ mAcc[k] = Null
  /\ \E k \in DOMAIN mBase \cap DOMAIN MergeOverride :
       /\ HasPlainObject(mBase, k) /\ HasPlainObject(MergeOverride, k)
       /\ HasPlainObject(mBase[k].v, "c")
       /\ "c" \in DOMAIN MergeOverride[k].v /\ MergeOverride[k].v["c"] = Null
       /\ "c" \in DOMAIN mAcc[k].v /\ mAcc[k].v["c"] = Null
----------------------------------------------------------------------------
(* Properties of the layers' files *)

\* The files with neither name of the layer present.
WithoutLayer(files, layer) ==
  [p \in Paths |->
     IF p \in {PrimaryPath(layer), LegacyPath(layer)} THEN NoFile ELSE files[p]]

ErrorKind(e) ==
  CASE IsNotFoundError(e)   -> "not_found"
    [] IsParseError(e)      -> "parse"
    [] IsValidationError(e) -> "validation"

\* The same configuration and sources, or an error of the same kind.
SameOutcome(a, b) ==
  IF a.threw THEN b.threw /\ ErrorKind(a.error) = ErrorKind(b.error)
  ELSE ~b.threw /\ a.value = b.value

\* The file read for the layer decodes to something that is no plain object.
LayerNonObject(layer) ==
  /\ LayerFound(layer)
  /\ FileRead(layer).syntax = "ok"
  /\ FileRead(layer).doc.t # "object"

\* C23: for each layer, a resolution in which the layer's file decodes to
\* something other than a plain object (null, a scalar, an array) has the
\* same outcome, configuration or error kind and sources, as the resolution
\* of the same loader with the layer's file absent.
C23_NonObjectLayerAsAbsent ==
  Called =>
    \A layer \in Layers :
      LayerNonObject(layer) =>
        /\ loadResult = loadConfig(fs, loadOpts) =>
             SameOutcome(loadResult, loadConfig(WithoutLayer(fs, layer), loadOpts))
        /\ loadResult = loadConfigInline(fs, loadOpts) =>
             SameOutcome(loadResult,
                         loadConfigInline(WithoutLayer(fs, layer), loadOpts))

\* The same of the loader with extracted helpers alone.
ExtractedLoaderIgnoresNonObject ==
  Called =>
    \A layer \in Layers :
      LayerNonObject(layer) =>
        SameOutcome(loadConfig(fs, loadOpts),
                    loadConfig(WithoutLayer(fs, layer), loadOpts))

\* C24: when both accepted filenames exist in a layer's directory only the
\* primary one (lattice.yaml, lattice.local.yaml for the local layer) is
\* read: the outcome of the resolution is the same whatever the alternate
\* .yml file holds, also when the alternate is malformed or the primary
\* decodes to a non-object and is ignored.
C24_AlternateNeverConsulted ==
  altResult # Pending => altResult = loadResult

\* C24 witness: the project layer has both names, the primary decodes to a
\* non-object and is ignored, the alternate is malformed, and the call has
\* returned the global layer's configuration without reading the alternate.
C24_Witness ==
  /\ Succeeded /\ altResult # Pending
  /\ BothNamesExist("project")
  /\ LayerNonObject("project")
  /\ fs[LegacyPath("project")] = Malformed
  /\ DOMAIN Sources = {"global"}
  /\ loadResult.value.config.v["name"] = Str("test")
----------------------------------------------------------------------------
(* Properties of validated weighted routing *)

IsWeighted(routing) ==
  /\ routing.t = "object"
  /\ "strategy" \in DOMAIN routing.v
  /\ routing.v["strategy"] = Str("weighted")

\* The weights map has an entry and every entry is above zero, so the total
\* weight is above zero.
PositiveTotalWeight(routing) ==
  /\ DOMAIN routing.v["weights"].v # {}
  /\ \A m \in DOMAIN routing.v["weights"].v : routing.v["weights"].v[m].v > 0

\* C25: every weighted routing spec that passes validation has strictly
\* positive total weight: its weights map is non-empty and every weight is
\* above zero, so a weighted draw has at least one candidate model.
C25_ValidatedWeightsPositiveTotal ==
  /\ (validResult # Pending /\ validResult.value.success
        /\ HasRouting(validResult.value.config)
        /\ IsWeighted(RoutingOf(validResult.value.config))) =>
       PositiveTotalWeight(RoutingOf(validResult.value.config))
  /\ (parseResult # Pending /\ ~parseResult.threw
        /\ HasRouting(parseResult.value)
        /\ IsWeighted(RoutingOf(parseResult.value))) =>
       PositiveTotalWeight(RoutingOf(parseResult.value))
----------------------------------------------------------------------------
(* Properties of the cursor and the call counter *)

\* The list a pattern or round-robin spec cycles over.
CycledList(routing) ==
  IF routing.strategy = "pattern" THEN routing.pattern ELSE routing.models

\* The cursor of the persisted state: the pattern index, or the call count
\* modulo the number of models.
Cursor(routing, state) ==
  IF routing.strategy = "pattern" THEN state.pattern_index
  ELSE state.call_count % Len(routing.models)

\* The persisted state was recorded under the configured strategy.
SameTag == routing_state.strategy = agentRouting.strategy

\* C26: in every reachable routing state, after any sequence of route calls
\* and of edits that keep the strategy tag but change the list (shortening
\* it included), the pattern or round-robin cursor is an index in [0, N) of
\* the configured N-element list, and every call takes its model from such
\* an index.
C26_CursorInRange ==
  (agentRouting.strategy \in {"pattern", "round_robin"}
     /\ WellFormed(agentRouting) /\ SameTag) =>
    /\ Cursor(agentRouting, routing_state)
         \in 0..(Len(CycledList(agentRouting)) - 1)
    /\ \A i \in 1..NumCalls :
         calls[i].slot \in 0..(Len(CycledList(agentRouting)) - 1)

\* The cursor the call began on: that of the persisted state, or the start
\* when the call reinitialised the state.
CursorBefore(call) == Reinitialise(agentRouting, call.before).pattern_index

Advanced(call) ==
  call.state.pattern_index = (CursorBefore(call) + 1) % PatternLength

Stayed(call) == call.state.pattern_index = CursorBefore(call)

----------------------------------------------------------------------------
(* Properties of the consumers *)

\* C29: a configuration returned by loadConfig is never mutated by its
\* consumers: when a collaborator that loaded it has run (the frozen-config
\* generation of the snapshot command with its runtime MCP and
\* disabled-agent/hook overrides, the status display), the validated
\* configuration object and all of its nested maps are as loadConfig
\* returned them.
C29_ConfigNeverMutated ==
  (consumed.by # "none" /\ consumed.baseConfig # Null) =>
    consumed.after = consumed.baseConfig

\* The same of the status display alone.
StatusLeavesConfig ==
  (consumed.by = "displayConfigDetails" /\ consumed.baseConfig # Null) =>
    consumed.after = consumed.baseConfig

----------------------------------------------------------------------------
(* Properties of the two text entry points together *)

BothCalled == parseResult # Pending /\ validResult # Pending

IsSyntaxError(e) ==
  e.message.parts[1] = "Invalid YAML syntax: " /\ e.zodErrors = None

\* validateConfig's failure is of the kind of the error e: YAML syntax, with
\* the same message, or schema violation, with the same issues.
SameFailure(failure, e) ==
  /\ e.name = "ConfigError"
  /\ \/ /\ IsSyntaxError(e)
        /\ failure.zodErrors = None
        /\ failure.error = Some(e.message)
     \/ /\ IsValidationError(e)
        /\ failure.zodErrors # None
        /\ failure.zodErrors = e.zodErrors
        /\ failure.error[1].issues = e.message.issues

\* C30: the raising and the non-raising text entry point agree on every
\* input: validateConfig(text) returns success=true exactly when
\* parseConfigString(text) returns, with the same configuration, and
\* success=false exactly when parseConfigString throws a ConfigError, of the
\* same kind (YAML syntax or schema violation).
C30_EntryPointsAgree ==
  BothCalled =>
    /\ ~validResult.threw
    /\ validResult.value.success <=> ~parseResult.threw
    /\ validResult.value.success =>
         validResult.value.config = parseResult.value
    /\ ~validResult.value.success =>
         SameFailure(validResult.value, parseResult.error)

\* C30 witness: on a well-formed text that breaks the schema both entry
\* points have failed, with a schema violation and the same issues.
C30_Witness ==
  /\ BothCalled /\ text.syntax = "ok"
  /\ ~validResult.value.success /\ parseResult.threw
  /\ IsValidationError(parseResult.error)
  /\ validResult.value.zodErrors = parseResult.error.zodErrors

\* Both entry points have refused a text that is not YAML.
BothRefuseMalformed ==
  /\ BothCalled /\ text = Malformed
  /\ ~validResult.value.success /\ parseResult.threw
  /\ IsSyntaxError(parseResult.error)

\* Both entry points have returned the same configuration.
BothAccept ==
  /\ BothCalled
  /\ validResult.value.success /\ ~parseResult.threw
  /\ validResult.value.config = parseResult.value
====
